---- MODULE Spec2Model ----
(***************************************************************************)
(* Governance validation engine of the AI Agent Governance Framework:      *)
(*   scripts/game_theory/raci_game_validator.py                            *)
(*   scripts/game_theory/cooperative_improvement_validator.py              *)
(*                                                                         *)
(* Numbers.  The Python code computes with floats.  The model is fixed     *)
(* point: action cost / risk / compliance_value and agent cost_per_action  *)
(* / risk_tolerance are integers in tenths, payoffs and bonuses integers   *)
(* in hundredths (a product of two tenths), so 2.0 is 200, 0.5 is 50 and   *)
(* the epsilon 0.01 is 1.                                                  *)
(***************************************************************************)
EXTENDS Integers, Sequences, FiniteSets, TLC

VARIABLES
    agents,            \* RACIGameValidator.agents
    raci_assignments,  \* RACIGameValidator.raci_assignments
    other,             \* a second RACIGameValidator, and the solves made on it
    validation,        \* outcome of the last validate_raci_constraints()
    conflicts,         \* outcome of the last detect_raci_conflicts()
    action_profile,    \* the Dict[Agent, Action] given to check_nash_equilibrium
    replaced,          \* agent_id of the entry a caller replaced last, or "none"
    payoff,            \* the PayoffMatrix of the last calculate_payoff()
    nash,              \* outcome of the last check_nash_equilibrium()
    solve,             \* the stackelberg_equilibrium() calls: the locals of each
    metrics,           \* an ImprovementMetrics
    pareto,            \* outcome of the last metrics.is_pareto_improvement()
    proposal,          \* the Proposal given to CooperativeImprovementValidator
    agent_history,     \* the agent's past Proposals, oldest first
    review,            \* the HumanReview given to validate_review_diligence
    pareto_check,      \* outcome of the last validate_pareto_improvement()
    complexity,        \* outcome of the last proposal.complexity_score()
    earlier,           \* the proposal and score before a caller raised a field
    truth,             \* outcome of the last validate_truthful_reporting()
    truth_before,      \* the history and outcome before a caller worsened it
    diligence,         \* outcome of the last validate_review_diligence()
    portfolio,         \* the find_pareto_optimal_set() call: its locals
    reputation,        \* reputation store: agent_id -> AgentReputation
    last_outcome,      \* the last record_proposal_outcome(): its input and effect
    resolver,          \* concurrent record_proposal_outcome() calls: their locals
    lock,              \* per-agent_id lock of the reputation store: its holder
    lifecycle          \* per proposal_id: how far the proposal has come

vars == <<agents, raci_assignments, other, validation, conflicts,
          action_profile, replaced, payoff, nash, solve, metrics, pareto,
          proposal, agent_history, review, pareto_check, complexity, earlier,
          truth, truth_before, diligence, portfolio,
          reputation, last_outcome, resolver, lock, lifecycle>>

validatorVars == <<agents, raci_assignments, other>>
raciVars == <<validation, conflicts>>
nashVars == <<action_profile, replaced, payoff, nash>>
proposalVars == <<metrics, pareto>>
improvementVars == <<proposal, agent_history, review, pareto_check, complexity,
                     earlier, truth, truth_before, diligence, portfolio>>
reputationVars == <<reputation, last_outcome, resolver, lock, lifecycle>>

-----------------------------------------------------------------------------
(* Bounds *)

\* longest raci_assignments list given to a validator in SpecRaci
MaxAssign == 2

\* longest raci_assignments list given to a validator in SpecPayoff, SpecNash
\* and SpecSolve
MaxGameAssign == 2

\* the deltas of an ImprovementMetrics range over -MaxDelta..MaxDelta
MaxDelta == 1

\* most affected controls of a proposal in SpecComplexity
MaxControls == 6

\* longest agent history of arbitrary past proposals in SpecTruth
MaxHistory == 3

\* length of the agent histories made of k proposals of one bad pattern and
\* honest ones otherwise: 3 of 10 is a share of exactly 30 %
LongHistory == 10

\* most proposals resolved in SpecReputation, over all agents
MaxRounds == 4

\* most calls of record_proposal_outcome on one proposal in SpecLifecycle
MaxCalls == 2

-----------------------------------------------------------------------------
(* Data model *)

\* Python's None where an Agent is expected.  It is a record of the Agent
\* shape so that Python's == (None == None is True, Agent == None is False)
\* is plain equality; reading an attribute of it raises AttributeError.
None == [agent_id |-> "None", tier |-> 0, controls |-> <<>>,
         cost_per_action |-> 0, risk_tolerance |-> 0]

IsNone(a) == a = None

\* class Agent (a dataclass: == compares every field)
Agent(id, tier, controls, cpa, rt) ==
    [agent_id |-> id, tier |-> tier, controls |-> controls,
     cost_per_action |-> cpa, risk_tolerance |-> rt]

\* the agents of main(), and a Tier 1 observer
architect == Agent("architect-agent", 4, <<"APP-001", "G-02">>, 20, 8)
security  == Agent("security-agent", 3, <<"SEC-001", "MI-003">>, 15, 6)
ops       == Agent("ops-agent", 3, <<"AU-002", "MI-020">>, 10, 5)
dev       == Agent("dev-agent", 2, <<"MI-009", "MI-021">>, 8, 4)
observer  == Agent("observer-agent", 1, <<"MI-009">>, 10, 5)

\* class RACIAssignment
RACIAssignment(control, r, a, c) ==
    [control_id |-> control, responsible |-> r, accountable |-> a,
     consulted |-> c]

\* sequences over S of length 0..n
SeqUpTo(S, n) == UNION {[1..k -> S] : k \in 0..n}

\* the elements of a sequence
Range(s) == {s[i] : i \in 1..Len(s)}

\* the outcome variables before the operation has been called
NotCalled == [status |-> "none", ok |-> FALSE, violations |-> <<>>]
NoConflicts == [status |-> "none", conflicts |-> <<>>]

-----------------------------------------------------------------------------
(* RACIGameValidator.validate_raci_constraints *)

Violation(control, text, id) ==
    [control_id |-> control, text |-> text, agent_id |-> id]

\* one pass of the loop body for assignment a: the violations it appends,
\* or raised when the f-string of Rule 3 reads None.agent_id
ValidateAssignment(a) ==
    LET rule1 == IF IsNone(a.accountable)
                 THEN <<Violation(a.control_id, "No Accountable agent assigned", "None")>>
                 ELSE <<>>
        rule2 == IF IsNone(a.responsible)
                 THEN <<Violation(a.control_id, "No Responsible agent assigned", "None")>>
                 ELSE <<>>
        rule3 == IF a.responsible = a.accountable
                 THEN <<Violation(a.control_id,
                                  "cannot be both Responsible and Accountable",
                                  a.responsible.agent_id)>>
                 ELSE <<>>
        rule4 == IF ~IsNone(a.accountable) /\ a.accountable.tier < 3
                 THEN <<Violation(a.control_id, "requires Tier 3+",
                                  a.accountable.agent_id)>>
                 ELSE <<>>
    IN  IF a.responsible = a.accountable /\ IsNone(a.responsible)
        THEN [raised |-> TRUE, violations |-> rule1 \o rule2]
        ELSE [raised |-> FALSE, violations |-> rule1 \o rule2 \o rule3 \o rule4]

RECURSIVE ValidateLoop(_, _, _)
ValidateLoop(assignments, i, violations) ==
    IF i > Len(assignments)
    THEN [status |-> "returned", ok |-> Len(violations) = 0,
          violations |-> violations]
    ELSE LET step == ValidateAssignment(assignments[i])
         IN  IF step.raised
             THEN [status |-> "raised", ok |-> FALSE, violations |-> <<>>]
             ELSE ValidateLoop(assignments, i + 1, violations \o step.violations)

validate_raci_constraints(assignments) == ValidateLoop(assignments, 1, <<>>)

-----------------------------------------------------------------------------
(* RACIGameValidator.detect_raci_conflicts *)

\* control_responsible: the controls in order of first appearance
RECURSIVE ControlOrder(_, _, _)
ControlOrder(assignments, i, seen) ==
    IF i > Len(assignments) THEN seen
    ELSE ControlOrder(assignments, i + 1,
                      IF assignments[i].control_id \in Range(seen) THEN seen
                      ELSE Append(seen, assignments[i].control_id))

\* control_responsible[control]: the responsible of every assignment of it
Responsibles(assignments, control) ==
    LET F[i \in 0..Len(assignments)] ==
            IF i = 0 THEN <<>>
            ELSE IF assignments[i].control_id = control
                 THEN Append(F[i - 1], assignments[i].responsible)
                 ELSE F[i - 1]
    IN  F[Len(assignments)]

Conflict(type, control, ids, severity) ==
    [type |-> type, control_id |-> control, agents |-> ids,
     severity |-> severity]

\* does a list of responsibles make a conflict
Overlapping(responsibles) == Len(responsibles) > 1

OverlapConflicts(assignments) ==
    LET order == ControlOrder(assignments, 1, <<>>)
        F[i \in 0..Len(order)] ==
            IF i = 0 THEN <<>>
            ELSE LET rs == Responsibles(assignments, order[i])
                 IN  IF Overlapping(rs)
                     THEN Append(F[i - 1],
                                 Conflict("overlapping_responsible", order[i],
                                          [k \in 1..Len(rs) |-> rs[k].agent_id],
                                          "high"))
                     ELSE F[i - 1]
    IN  F[Len(order)]

\* [a.agent_id for a in responsibles] raises on a None responsible
OverlapRaises(assignments) ==
    \E c \in Range(ControlOrder(assignments, 1, <<>>)) :
        LET rs == Responsibles(assignments, c)
        IN  Overlapping(rs) /\ None \in Range(rs)

TierConflicts(assignments) ==
    LET F[i \in 0..Len(assignments)] ==
            IF i = 0 THEN <<>>
            ELSE LET a == assignments[i]
                 IN  IF /\ ~IsNone(a.accountable)
                        /\ ~IsNone(a.responsible)
                        /\ a.accountable.tier < a.responsible.tier
                     THEN Append(F[i - 1],
                                 Conflict("tier_hierarchy_violation", a.control_id,
                                          <<a.accountable.agent_id,
                                            a.responsible.agent_id>>,
                                          "critical"))
                     ELSE F[i - 1]
    IN  F[Len(assignments)]

detect_raci_conflicts(assignments) ==
    IF OverlapRaises(assignments)
    THEN [status |-> "raised", conflicts |-> <<>>]
    ELSE [status |-> "returned",
          conflicts |-> OverlapConflicts(assignments) \o TierConflicts(assignments)]

-----------------------------------------------------------------------------
(* Actions and payoffs *)

\* class Action; description is left out (no two actions of the model differ
\* in it alone), action_id is a tuple in place of the formatted string
Action(id, control, cost, risk, value, approval) ==
    [action_id |-> id, control_id |-> control, cost |-> cost, risk |-> risk,
     compliance_value |-> value, requires_approval |-> approval]

\* bonus of one assignment, in hundredths
BonusResponsible == 200
BonusConsulted == 50

AssignmentBonus(agent, action, a) ==
    IF a.control_id = action.control_id
    THEN IF agent = a.responsible THEN BonusResponsible
         ELSE IF agent \in Range(a.consulted) THEN BonusConsulted
         ELSE 0
    ELSE 0

\* the loop of calculate_payoff over self.raci_assignments
RECURSIVE CooperationBonus(_, _, _, _)
CooperationBonus(assignments, i, agent, action) ==
    IF i > Len(assignments) THEN 0
    ELSE AssignmentBonus(agent, action, assignments[i])
         + CooperationBonus(assignments, i + 1, agent, action)

\* RACIGameValidator.calculate_payoff, in hundredths; game_state is a
\* parameter the code never reads
calculate_payoff(assignments, agent, action, game_state) ==
    LET compliance_value == 10 * action.compliance_value
        cost == action.cost * agent.cost_per_action
        risk_penalty == action.risk * (10 - agent.risk_tolerance)
        cooperation_bonus == CooperationBonus(assignments, 1, agent, action)
    IN  [agent |-> agent, action |-> action,
         payoff |-> compliance_value - cost - risk_penalty + cooperation_bonus,
         compliance_value |-> compliance_value, cost |-> -cost,
         risk_penalty |-> -risk_penalty,
         cooperation_bonus |-> cooperation_bonus]

\* RACIGameValidator._get_agent_actions: one action per control of the agent,
\* cost 1.0, risk 0.3, compliance_value 5.0
_get_agent_actions(agent) ==
    [k \in 1..Len(agent.controls) |->
        Action(<<agent.agent_id, agent.controls[k], "execute">>,
               agent.controls[k], 10, 3, 50, agent.tier >= 3)]

-----------------------------------------------------------------------------
(* RACIGameValidator.check_nash_equilibrium *)

\* the epsilon tolerance 0.01, in hundredths
Epsilon == 1

\* >= in place of >
ImprovesOrTies(alt_payoff, current_payoff) == alt_payoff >= current_payoff + Epsilon

\* a tolerance of 1.0 (100 * 0.01) in place of 0.01
ImprovesByOne(alt_payoff, current_payoff) ==
    alt_payoff > current_payoff + 100 * Epsilon

\* the test that records a deviation
Improves(alt_payoff, current_payoff) == alt_payoff > current_payoff + Epsilon

Deviation(agent, current, alt, cp, ap) ==
    [agent_id |-> agent.agent_id, from |-> current.action_id,
     to |-> alt.action_id, current_payoff |-> cp, alt_payoff |-> ap]

\* the inner loop: the deviations of one profile entry
AgentDeviations(assignments, agent, current_action, game_state) ==
    LET current_payoff ==
            calculate_payoff(assignments, agent, current_action, game_state).payoff
        possible_actions == _get_agent_actions(agent)
        F[k \in 0..Len(possible_actions)] ==
            IF k = 0 THEN <<>>
            ELSE LET alt_action == possible_actions[k]
                     alt_payoff == calculate_payoff(assignments, agent, alt_action,
                                                    game_state).payoff
                 IN  IF alt_action = current_action THEN F[k - 1]
                     ELSE IF Improves(alt_payoff, current_payoff)
                          THEN Append(F[k - 1],
                                      Deviation(agent, current_action, alt_action,
                                                current_payoff, alt_payoff))
                          ELSE F[k - 1]
    IN  F[Len(possible_actions)]

\* profile: the dict as the sequence of its items, in insertion order
check_nash_equilibrium(assignments, game_state, profile) ==
    LET F[i \in 0..Len(profile)] ==
            IF i = 0 THEN <<>>
            ELSE F[i - 1] \o AgentDeviations(assignments, profile[i].agent,
                                             profile[i].action, game_state)
    IN  [status |-> "returned", is_equilibrium |-> Len(F[Len(profile)]) = 0,
         violations |-> F[Len(profile)]]

\* class GameState as its constructor leaves it
GameState(as, assignments) ==
    [actions_taken |-> <<>>, compliance_score |-> 0, total_cost |-> 0,
     total_risk |-> 0]

-----------------------------------------------------------------------------
(* RACIGameValidator.find_best_response and stackelberg_equilibrium *)

\* Python's None where an Action is expected
NoneAction == Action(<<>>, "", 0, 0, 0, FALSE)

Item(agent, action) == [agent |-> agent, action |-> action]

\* actions_by_agent.get(agent, [])
Available(actions_by_agent, agent) ==
    IF agent.agent_id \in DOMAIN actions_by_agent
    THEN actions_by_agent[agent.agent_id]
    ELSE <<>>

\* the first candidate, whatever the payoffs of the others
FirstCandidate(payoffs) ==
    CHOOSE k \in 1..Len(payoffs) : \A j \in 1..Len(payoffs) : k <= j

\* the last of the maximal elements, in place of the first
LastMax(payoffs) ==
    CHOOSE k \in 1..Len(payoffs) :
        /\ \A j \in 1..Len(payoffs) : payoffs[j] <= payoffs[k]
        /\ \A j \in (k + 1)..Len(payoffs) : payoffs[j] < payoffs[k]

\* max(payoffs, key=...): the index of the first maximal element
FirstMax(payoffs) ==
    CHOOSE k \in 1..Len(payoffs) :
        /\ \A j \in 1..Len(payoffs) : payoffs[j] <= payoffs[k]
        /\ \A j \in 1..(k - 1) : payoffs[j] < payoffs[k]

\* >= 0 in place of > 0
NonNegative(p) == p >= 0

\* best.payoff > 0
Profitable(p) == p > 0

\* a best response that is None once another agent has moved
find_best_response_first_mover(assignments, agent, actions, game_state) ==
    IF Len(actions) = 0 \/ game_state.actions_taken # <<>> THEN NoneAction
    ELSE LET payoffs == [k \in 1..Len(actions) |->
                            calculate_payoff(assignments, agent, actions[k],
                                             game_state).payoff]
             best == FirstMax(payoffs)
         IN  IF Profitable(payoffs[best]) THEN actions[best] ELSE NoneAction

find_best_response(assignments, agent, actions, game_state) ==
    IF Len(actions) = 0 THEN NoneAction
    ELSE LET payoffs == [k \in 1..Len(actions) |->
                            calculate_payoff(assignments, agent, actions[k],
                                             game_state).payoff]
             best == FirstMax(payoffs)
         IN  IF Profitable(payoffs[best]) THEN actions[best] ELSE NoneAction

\* sorted(self.agents, key=tier, reverse=True): a stable sort, so agents of
\* one tier keep their order in self.agents
RECURSIVE SortedByTier(_, _)
SortedByTier(as, tier) ==
    IF tier < 1 THEN <<>>
    ELSE SelectSeq(as, LAMBDA a : a.tier = tier) \o SortedByTier(as, tier - 1)

\* the agents as listed, not sorted
agents_as_listed(as) == as

sorted_agents(as) == SortedByTier(as, 4)

\* action_profile[agent] = action on the dict kept as its items in order
DictSet(profile, agent, action) ==
    IF \E k \in 1..Len(profile) : profile[k].agent = agent
    THEN [k \in 1..Len(profile) |->
             IF profile[k].agent = agent THEN Item(agent, action) ELSE profile[k]]
    ELSE Append(profile, Item(agent, action))

\* the two solves that may be under way at once
Runs == {"run1", "run2"}

\* no call of stackelberg_equilibrium made yet
Idle == [pc |-> "idle", actions_by_agent |-> <<>>, sorted_agents |-> <<>>,
         i |-> 0, game_state |-> GameState(<<>>, <<>>), action_profile |-> <<>>]

\* the locals of run r, carried over from its previous call
StaleLocals(r, as, assignments, actions_by_agent) ==
    [solve[r] EXCEPT !.pc = "loop", !.actions_by_agent = actions_by_agent,
                     !.sorted_agents = sorted_agents(as), !.i = 1]

\* the locals of a call up to the loop: a new GameState, an empty profile
\* and the sorted agents
NewLocals(r, as, assignments, actions_by_agent) ==
    [pc |-> "loop", actions_by_agent |-> actions_by_agent,
     sorted_agents |-> sorted_agents(as), i |-> 1,
     game_state |-> GameState(as, assignments), action_profile |-> <<>>]

\* no second validator built
NoValidator == [agents |-> <<>>, raci_assignments |-> <<>>, runs |-> {}]

\* the loop body run on the running state of run1, whichever solve it is
LoopBodyShared(assignments, f) ==
    LET agent == f.sorted_agents[f.i]
        best_action == find_best_response(assignments, agent,
                                          Available(f.actions_by_agent, agent),
                                          solve["run1"].game_state)
    IN  IF best_action # NoneAction
        THEN [f EXCEPT
                 !.action_profile = DictSet(@, agent, best_action),
                 !.game_state =
                     [actions_taken |-> Append(solve["run1"].game_state.actions_taken,
                                               Item(agent, best_action)),
                      compliance_score |-> solve["run1"].game_state.compliance_score
                                           + best_action.compliance_value,
                      total_cost |-> solve["run1"].game_state.total_cost
                                     + best_action.cost,
                      total_risk |-> solve["run1"].game_state.total_risk
                                     + best_action.risk],
                 !.i = @ + 1]
        ELSE [f EXCEPT !.i = @ + 1]

\* one pass of the loop body on the locals f
LoopBody(assignments, f) ==
    LET agent == f.sorted_agents[f.i]
        available_actions == Available(f.actions_by_agent, agent)
        best_action == find_best_response(assignments, agent, available_actions,
                                          f.game_state)
    IN  IF best_action # NoneAction
        THEN [f EXCEPT
                 !.action_profile = DictSet(@, agent, best_action),
                 !.game_state =
                     [actions_taken |-> Append(@.actions_taken,
                                               Item(agent, best_action)),
                      compliance_score |-> @.compliance_score
                                           + best_action.compliance_value,
                      total_cost |-> @.total_cost + best_action.cost,
                      total_risk |-> @.total_risk + best_action.risk],
                 !.i = @ + 1]
        ELSE [f EXCEPT !.i = @ + 1]

\* n passes of the loop on the locals f
RECURSIVE Passes(_, _, _)
Passes(assignments, f, n) ==
    IF n = 0 THEN f ELSE Passes(assignments, LoopBody(assignments, f), n - 1)

\* stackelberg_equilibrium from its call to its return, nothing else
\* running: the locals it returns with
stackelberg_equilibrium(as, assignments, actions_by_agent) ==
    [Passes(assignments, NewLocals("run1", as, assignments, actions_by_agent),
            Len(as))
        EXCEPT !.pc = "done"]

-----------------------------------------------------------------------------
(* ImprovementMetrics (cooperative_improvement_validator.py) *)

\* class ImprovementMetrics: five signed deltas
ImprovementMetrics(cs, ts, qi, rr, cd) ==
    [cost_savings_usd |-> cs, time_savings_hours |-> ts,
     quality_improvement_pct |-> qi, risk_reduction_pct |-> rr,
     compliance_score_delta |-> cd]

\* the dataclass defaults
ZeroMetrics == ImprovementMetrics(0, 0, 0, 0, 0)

NoPareto == [status |-> "none", value |-> FALSE]

\* all(m >= 0 ...) alone, without the any(m > 0 ...)
AllNonNegative(m) ==
    LET ms == <<m.cost_savings_usd, m.time_savings_hours,
                m.quality_improvement_pct, m.risk_reduction_pct,
                m.compliance_score_delta>>
    IN  \A k \in 1..Len(ms) : ms[k] >= 0

\* ImprovementMetrics.is_pareto_improvement
is_pareto_improvement(m) ==
    LET ms == <<m.cost_savings_usd, m.time_savings_hours,
                m.quality_improvement_pct, m.risk_reduction_pct,
                m.compliance_score_delta>>
    IN  (\A k \in 1..Len(ms) : ms[k] >= 0) /\ (\E k \in 1..Len(ms) : ms[k] > 0)

-----------------------------------------------------------------------------
(* Proposal (cooperative_improvement_validator.py) *)
(*                                                                         *)
(* Numbers.  USD amounts, hours, percentages and character counts are      *)
(* integers.  A complexity score is an integer in hundredths of a point    *)
(* (cost / 100.0 and len(description) / 100.0 are exact in hundredths), a  *)
(* truthfulness score an integer in hundredths, a ratio a pair of          *)
(* integers.                                                               *)

Min(a, b) == IF a <= b THEN a ELSE b
Max(a, b) == IF a >= b THEN a ELSE b
Abs(a) == IF a >= 0 THEN a ELSE -a

\* USD equivalents of ImprovementMetrics.total_value
LaborRate == 75
QualityValue == 100
RiskValue == 500
ComplianceValue == 1000

\* ImprovementMetrics.total_value
total_value(m) ==
    m.cost_savings_usd
    + m.time_savings_hours * LaborRate
    + m.quality_improvement_pct * QualityValue
    + m.risk_reduction_pct * RiskValue
    + m.compliance_score_delta * ComplianceValue

\* class Proposal: the fields the validator reads.  description_len is
\* len(description); affected_controls is the list of control ids.
Proposal(id, agent_id, m, controls, cost, time, desc) ==
    [proposal_id |-> id, agent_id |-> agent_id, metrics |-> m,
     affected_controls |-> controls,
     implementation_cost_usd |-> cost,
     implementation_time_hours |-> time,
     description_len |-> desc]

ControlIds == <<"CST-001", "SEC-001", "AU-002", "MI-003", "APP-001", "G-02", "G-07">>

\* the first n control ids
Controls(n) == SubSeq(ControlIds, 1, n)

NoProposal == Proposal("none", "none", ZeroMetrics, <<>>, 0, 0, 0)

\* Proposal.net_benefit
net_benefit(p) == total_value(p.metrics) - p.implementation_cost_usd

\* a float that is a quotient of two amounts, or float('inf')
Ratio(n, d) == [inf |-> FALSE, num |-> n, den |-> d]
Infinity == [inf |-> TRUE, num |-> 1, den |-> 0]

\* r < n / d for a ratio r with r.den > 0, and d > 0
RatioLess(r, n, d) == ~r.inf /\ r.num * d < n * r.den

\* Proposal.roi: the quotient is kept with a positive denominator
roi(p) ==
    LET tv == total_value(p.metrics)
        cost == p.implementation_cost_usd
    IN  IF cost = 0
        THEN IF tv > 0 THEN Infinity ELSE Ratio(0, 1)
        ELSE IF cost > 0 THEN Ratio(tv, cost) ELSE Ratio(-tv, -cost)

-----------------------------------------------------------------------------
(* Proposal.complexity_score *)

\* points per affected control, and the caps of the other three terms
ControlPoints == 5
TimeCap == 40
CostUnit == 100
CostCap == 20
DescriptionUnit == 100
DescriptionCap == 15
ComplexityCap == 100

\* complexity_score with min(implementation_time_hours, 40.0) replaced by
\* implementation_time_hours
complexity_score_uncapped_time(p) ==
    LET score == Len(p.affected_controls) * ControlPoints * 100
                 + p.implementation_time_hours * 100
                 + Min((100 * p.implementation_cost_usd) \div CostUnit,
                       CostCap * 100)
                 + Min((100 * p.description_len) \div DescriptionUnit,
                       DescriptionCap * 100)
    IN  Min(score, ComplexityCap * 100)

\* Proposal.complexity_score, in hundredths of a point
complexity_score(p) ==
    LET score == Len(p.affected_controls) * ControlPoints * 100
                 + Min(p.implementation_time_hours * 100, TimeCap * 100)
                 + Min((100 * p.implementation_cost_usd) \div CostUnit,
                       CostCap * 100)
                 + Min((100 * p.description_len) \div DescriptionUnit,
                       DescriptionCap * 100)
    IN  Min(score, ComplexityCap * 100)

-----------------------------------------------------------------------------
(* CooperativeImprovementValidator.validate_pareto_improvement *)

\* the ROI threshold 1.2, in tenths
MinRoiTenths == 12

\* a Tuple[bool, List[str]] not yet returned
NoCheck == [status |-> "none", ok |-> FALSE, issues |-> <<>>]

\* issues.append(...) when the condition holds
AppendIf(issues, cond, issue) == IF cond THEN Append(issues, issue) ELSE issues

\* net_benefit < 0 where the code has net_benefit <= 0
NetBenefitNegative(nb) == nb < 0

\* the net benefit condition: net_benefit <= 0
NetBenefitFails(nb) == nb <= 0

validate_pareto_improvement(p) ==
    LET i1 == AppendIf(<<>>, ~is_pareto_improvement(p.metrics), "not_pareto")
        i2 == AppendIf(i1, NetBenefitFails(net_benefit(p)), "net_benefit")
        i3 == AppendIf(i2, RatioLess(roi(p), MinRoiTenths, 10), "roi")
    IN  [status |-> "returned", ok |-> Len(i3) = 0, issues |-> i3]

-----------------------------------------------------------------------------
(* CooperativeImprovementValidator.validate_truthful_reporting *)
(* Scores are in hundredths: 1.0 is 100.                                   *)

FullScore == 100
NewAgentScore == 90
CostErrorValue == 10000
CostErrorCost == 100
TimeErrorHours == 1
TimeErrorSavings == 100
PatternShareTenths == 3
PatternPenalty == 20
RedFlagValue == 50000
RedFlagCost == 500
RedFlagPenalty == 10

\* a claimed value above 10000 USD on a cost below 100 USD
CostError(past) ==
    /\ total_value(past.metrics) > CostErrorValue
    /\ past.implementation_cost_usd < CostErrorCost

\* more than 100 hours saved by less than an hour of work
TimeError(past) ==
    /\ past.implementation_time_hours < TimeErrorHours
    /\ past.metrics.time_savings_hours > TimeErrorSavings

\* the current proposal's red flag
RedFlag(p) ==
    /\ total_value(p.metrics) > RedFlagValue
    /\ p.implementation_cost_usd < RedFlagCost

\* len(errors) >= len(agent_history) * 0.3
ReachesShare(k, n) == 10 * k >= PatternShareTenths * n

\* len(errors) > len(agent_history) * 0.3
ExceedsShare(k, n) == 10 * k > PatternShareTenths * n

\* the empty-history branch without its return: the red flag of the current
\* proposal is applied to the 0.9
NewAgentThenRedFlag(p) ==
    [status |-> "returned",
     score |-> Max(NewAgentScore - (IF RedFlag(p) THEN RedFlagPenalty ELSE 0), 0),
     warnings |-> AppendIf(<<"new_agent">>, RedFlag(p), "red_flag")]

\* the empty-history branch: 0.9 and one warning
NewAgentResult(p) ==
    [status |-> "returned", score |-> NewAgentScore, warnings |-> <<"new_agent">>]

validate_truthful_reporting(p, history) ==
    IF history = <<>>
    THEN NewAgentResult(p)
    ELSE LET n == Len(history)
             cost_errors == SelectSeq(history, CostError)
             time_errors == SelectSeq(history, TimeError)
             c == ExceedsShare(Len(cost_errors), n)
             t == ExceedsShare(Len(time_errors), n)
             r == RedFlag(p)
             score == FullScore
                      - (IF c THEN PatternPenalty ELSE 0)
                      - (IF t THEN PatternPenalty ELSE 0)
                      - (IF r THEN RedFlagPenalty ELSE 0)
             w1 == AppendIf(<<>>, c, "underestimates_costs")
             w2 == AppendIf(w1, t, "overestimates_benefits")
             w3 == AppendIf(w2, r, "red_flag")
         IN  [status |-> "returned", score |-> Max(score, 0), warnings |-> w3]

-----------------------------------------------------------------------------
(* CooperativeImprovementValidator.validate_review_diligence *)

\* class HumanReview: the fields validate_review_diligence reads.
\* comments_len is len(comments); concerns_raised and documents_reviewed are
\* lists; review_duration_minutes is in whole minutes.
HumanReview(status, minutes, comments, concerns, questions, documents) ==
    [status |-> status, review_duration_minutes |-> minutes,
     comments_len |-> comments, concerns_raised |-> concerns,
     questions_asked |-> questions, documents_reviewed |-> documents]

NoReview == HumanReview("pending", 0, 0, <<>>, 0, <<>>)

\* minutes per complexity point, in tenths: 0.5 and 3.0
MIN_REVIEW_MINUTES_PER_COMPLEXITY == 5
MAX_REVIEW_MINUTES_PER_COMPLEXITY == 30

LongReviewFactor == 2
MinApprovalComments == 50
EngagementComments == 100
MinEngagement == 2

\* review_time < complexity * MIN_REVIEW_MINUTES_PER_COMPLEXITY, the
\* complexity c in hundredths of a point and the time in whole minutes
ReviewTooShort(minutes, c) ==
    1000 * minutes < c * MIN_REVIEW_MINUTES_PER_COMPLEXITY

\* review_time > max_expected_minutes, without the factor 2
ReviewAboveMaximum(minutes, c) ==
    1000 * minutes > c * MAX_REVIEW_MINUTES_PER_COMPLEXITY

\* review_time > max_expected_minutes * 2
ReviewTooLong(minutes, c) ==
    1000 * minutes > c * MAX_REVIEW_MINUTES_PER_COMPLEXITY * LongReviewFactor

\* the four engagement markers
engagement_score(r) ==
    (IF r.questions_asked > 0 THEN 1 ELSE 0)
    + (IF Len(r.documents_reviewed) > 0 THEN 1 ELSE 0)
    + (IF r.comments_len > EngagementComments THEN 1 ELSE 0)
    + (IF r.concerns_raised # <<>> THEN 1 ELSE 0)

validate_review_diligence(p, r) ==
    LET c == complexity_score(p)
        i1 == AppendIf(<<>>, ReviewTooShort(r.review_duration_minutes, c),
                       "too_short")
        i2 == AppendIf(i1, ReviewTooLong(r.review_duration_minutes, c),
                       "too_long")
        i3 == AppendIf(i2, r.status = "approved"
                           /\ r.comments_len < MinApprovalComments,
                       "comments")
        i4 == AppendIf(i3, r.status = "rejected" /\ r.concerns_raised = <<>>,
                       "no_concerns")
        i5 == AppendIf(i4, engagement_score(r) < MinEngagement, "engagement")
    IN  [status |-> "returned", ok |-> Len(i5) = 0, issues |-> i5]

-----------------------------------------------------------------------------
(* Reputation tracker: get_agent_reputation and record_proposal_outcome    *)
(*                                                                         *)
(* test_tit_for_tat.py imports AgentReputation and calls these methods,    *)
(* cooperative_improvement_validator.py does not hold them.  This part     *)
(* follows the documented behaviour: spec.md 4.9 for the update rule and   *)
(* spec.md 5 for the writes serialized per agent_id.  Scores and outcome   *)
(* qualities are in hundredths.                                            *)

\* the agents the reputation store has entries for
AgentIds == {"agent-a", "agent-b"}

\* the concurrent callers of record_proposal_outcome
Resolvers == {"w1", "w2"}

\* AgentReputation: cooperation_score in hundredths, proposal_history the
\* outcome qualities recorded so far, oldest first
AgentReputation(score, history) ==
    [cooperation_score |-> score, proposal_history |-> history]

\* the score a reputation starts at: 1.0
InitialScore == 100

\* outcome_quality >= 0.85 is cooperation, outcome_quality < 0.5 defection
CooperationQuality == 85
DefectionQuality == 50

\* + 0.05 for cooperation, - 0.3 for defection
CooperationReward == 5
DefectionPenalty == 30

NewReputation == AgentReputation(InitialScore, <<>>)

NoOutcome == [agent_id |-> "none", outcome_quality |-> 0, before |-> 0]
IdleResolver == [pc |-> "idle", agent_id |-> "none", outcome_quality |-> 0,
                 score |-> 0]

\* the least integer that is at least a / b, for b > 0
CeilDiv(a, b) == (a + b - 1) \div b

\* outcome_quality = 1 - min(|predicted - actual| / max(|predicted|, eps), 1)
\* for values in whole USD, in hundredths rounded down: the comparisons with
\* 0.85 and 0.5 are exact.  A predicted value of 0 divides by eps < 1, which
\* is at least the quotient by 1.
outcome_quality(predicted, actual) ==
    100 - Min(CeilDiv(100 * Abs(predicted - actual), Max(Abs(predicted), 1)), 100)

\* the update rule without min(1.0, .) and max(0.0, .)
next_score_unclamped(score, quality) ==
    IF quality >= CooperationQuality THEN score + CooperationReward
    ELSE IF quality < DefectionQuality THEN score - DefectionPenalty
    ELSE score

\* the update rule without the reward for cooperation
next_score_unforgiving(score, quality) ==
    IF quality < DefectionQuality THEN Max(0, score - DefectionPenalty)
    ELSE score

\* the update rule of the cooperation score
next_score(score, quality) ==
    IF quality >= CooperationQuality
    THEN Min(InitialScore, score + CooperationReward)
    ELSE IF quality < DefectionQuality THEN Max(0, score - DefectionPenalty)
    ELSE score

\* the reputation after one more resolved proposal of the given quality
Recorded(rep, quality) ==
    AgentReputation(next_score(rep.cooperation_score, quality),
                    Append(rep.proposal_history, quality))

\* the agent that submits the proposal
ProposalAgent(id) == IF id = "PROP-002" THEN "agent-b" ELSE "agent-a"

\* record_proposal_outcome updates the reputation on every call for an
\* approved proposal, resolved before or not
AppliesWhenApproved(l) == l.approved

\* record_proposal_outcome updates the reputation for a proposal that is
\* approved and whose outcome was not recorded before
Applies(l) == l.stage = "reviewed" /\ l.approved

\* the lock of the agent's entry is taken whoever holds it
LockIgnored(a) == TRUE

\* the lock of the agent's entry can be taken
LockFree(a) == lock[a] = "free"

-----------------------------------------------------------------------------
(* Values of the proposal and reputation state before any call *)

NoComplexity == [status |-> "none", score |-> 0]
NoEarlier == [field |-> "none", proposal |-> NoProposal, score |-> 0]
NoTruth == [status |-> "none", score |-> 0, warnings |-> <<>>]
NoTruthBefore == [changed |-> 0, history |-> <<>>, score |-> 0]

\* no call of find_pareto_optimal_set made yet
NoPortfolio == [pc |-> "idle", proposals |-> <<>>, budget_constraint |-> 0,
                sorted_proposals |-> <<>>, i |-> 0, selected |-> <<>>,
                remaining_budget |-> 0]

ImprovementIdle ==
    /\ proposal = NoProposal
    /\ agent_history = <<>>
    /\ review = NoReview
    /\ pareto_check = NoCheck
    /\ complexity = NoComplexity
    /\ earlier = NoEarlier
    /\ truth = NoTruth
    /\ truth_before = NoTruthBefore
    /\ diligence = NoCheck
    /\ portfolio = NoPortfolio

\* the proposals whose way from submission to outcome is followed
ProposalIds == {"PROP-001", "PROP-002", "PROP-003"}

\* a proposal not yet submitted: nobody reviewed it, no outcome is known and
\* record_proposal_outcome was never called on it
NotSubmitted == [stage |-> "none", approved |-> FALSE, calls |-> 0]

ReputationIdle ==
    /\ reputation = [a \in AgentIds |-> NewReputation]
    /\ last_outcome = NoOutcome
    /\ resolver = [w \in Resolvers |-> IdleResolver]
    /\ lock = [a \in AgentIds |-> "free"]
    /\ lifecycle = [id \in ProposalIds |-> NotSubmitted]

-----------------------------------------------------------------------------
(* Inputs of the game specifications *)

GameAgents == <<architect, security, ops>>

GameAssignmentSet ==
    {RACIAssignment(c, r, architect, co) :
        c \in {"SEC-001", "AU-002"}, r \in {security, ops},
        co \in {<<>>, <<security>>, <<ops>>}}

\* actions a caller may hold besides the synthesized ones: for security-agent
\* they pay 3.37, 3.36 and 3.38 before any bonus (the synthesized ones pay
\* 3.38 before any bonus)
CustomActions ==
    <<Action(<<"custom", "a">>, "MI-003", 1, 2, 36, FALSE),
      Action(<<"custom", "b">>, "MI-003", 0, 1, 34, FALSE),
      Action(<<"custom", "c">>, "AU-002", 10, 3, 50, FALSE)>>

NoPayoff == [agent |-> None, action |-> NoneAction,
             payoff |-> 0,
             compliance_value |-> 0, cost |-> 0, risk_penalty |-> 0,
             cooperation_bonus |-> 0]
NoNash == [status |-> "none", is_equilibrium |-> FALSE, violations |-> <<>>]

-----------------------------------------------------------------------------
(* SpecPayoff: calculate_payoff on any agent, action and assignment list *)

InitPayoff ==
    /\ agents = GameAgents
    /\ raci_assignments \in SeqUpTo(GameAssignmentSet, MaxGameAssign)
    /\ action_profile = <<>>
    /\ validation = NotCalled
    /\ conflicts = NoConflicts
    /\ replaced = "none"
    /\ payoff = NoPayoff
    /\ nash = NoNash
    /\ solve = [r \in Runs |-> Idle]
    /\ other = NoValidator
    /\ metrics = ZeroMetrics
    /\ pareto = NoPareto
    /\ ImprovementIdle
    /\ ReputationIdle

CalculatePayoff ==
    \E agent \in Range(agents) :
        \E action \in Range(_get_agent_actions(agent)) \cup Range(CustomActions) :
            /\ payoff' = calculate_payoff(raci_assignments, agent, action,
                                          GameState(agents, raci_assignments))
            /\ UNCHANGED <<validatorVars, raciVars, action_profile, replaced, nash, solve,
                           proposalVars,
                   improvementVars, reputationVars>>

NextPayoff == CalculatePayoff

SpecPayoff == InitPayoff /\ [][NextPayoff]_vars

-----------------------------------------------------------------------------
(* SpecNash: the Nash check on any action profile *)

\* what a caller may put into an agent's profile entry
ProfileActions(agent) ==
    Range(_get_agent_actions(agent)) \cup
        (IF agent = security THEN Range(CustomActions) ELSE {})

\* the dicts over a sequence of agents: each agent absent or with one of its
\* synthesized actions (what main() builds the solver's candidates from)
RECURSIVE Profiles(_)
Profiles(as) ==
    IF Len(as) = 0 THEN {<<>>}
    ELSE LET rest == Profiles(Tail(as))
         IN  rest \cup {<<Item(Head(as), x)>> \o p :
                           x \in Range(_get_agent_actions(Head(as))), p \in rest}

InitNash ==
    /\ agents = GameAgents
    /\ raci_assignments \in SeqUpTo(GameAssignmentSet, MaxGameAssign)
    /\ action_profile \in Profiles(<<security, ops>>)
    /\ validation = NotCalled
    /\ conflicts = NoConflicts
    /\ replaced = "none"
    /\ payoff = NoPayoff
    /\ nash = NoNash
    /\ solve = [r \in Runs |-> Idle]
    /\ other = NoValidator
    /\ metrics = ZeroMetrics
    /\ pareto = NoPareto
    /\ ImprovementIdle
    /\ ReputationIdle

CheckNashEquilibrium ==
    /\ nash' = check_nash_equilibrium(raci_assignments,
                                      GameState(agents, raci_assignments),
                                      action_profile)
    /\ UNCHANGED <<validatorVars, raciVars, action_profile, replaced, payoff, solve,
                   proposalVars,
                   improvementVars, reputationVars>>

\* a caller replaces one agent's action in the profile before checking it
ReplaceAction ==
    \E i \in 1..Len(action_profile) :
        \E x \in ProfileActions(action_profile[i].agent) :
            /\ x # action_profile[i].action
            /\ action_profile' = [action_profile EXCEPT ![i].action = x]
            /\ replaced' = action_profile[i].agent.agent_id
            /\ nash' = NoNash
            /\ UNCHANGED <<validatorVars, raciVars, payoff, solve, proposalVars,
                   improvementVars, reputationVars>>

NextNash == CheckNashEquilibrium \/ ReplaceAction

SpecNash == InitNash /\ [][NextNash]_vars

-----------------------------------------------------------------------------
(* SpecSolve: stackelberg_equilibrium, one loop pass at a time, two calls *)
(* on one validator interleaved                                           *)

\* what callers pass as actions_by_agent: the synthesized actions of main(),
\* and a dict without the architect whose lists hold ties, a payoff of
\* exactly 0 (ops-agent, no bonus) and a negative payoff
SynthesizedCandidates ==
    [id \in {GameAgents[k].agent_id : k \in 1..Len(GameAgents)} |->
        _get_agent_actions(CHOOSE a \in Range(GameAgents) : a.agent_id = id)]

CustomCandidates ==
    [id \in {"security-agent", "ops-agent"} |->
        IF id = "security-agent"
        THEN <<CustomActions[2], CustomActions[1], CustomActions[3],
               Action(<<"custom", "d">>, "MI-003", 10, 3, 50, FALSE)>>
        ELSE <<Action(<<"custom", "e">>, "MI-020", 1, 0, 0, FALSE),
               Action(<<"custom", "f">>, "AU-002", 1, 0, 1, FALSE),
               Action(<<"custom", "g">>, "MI-020", 1, 0, 1, FALSE)>>]

CandidateDicts == {SynthesizedCandidates, CustomCandidates}

\* the assignments of the solves: the bonus of security-agent and ops-agent
\* on the two assigned controls varies with them
SolveAssignmentSet ==
    {RACIAssignment(c, r, architect, <<>>) :
        c \in {"SEC-001", "AU-002"}, r \in {security, ops}}
    \cup {RACIAssignment("AU-002", ops, architect, <<security>>)}

InitSolve ==
    /\ agents \in {<<security, architect, ops>>, <<ops, security, architect>>}
    /\ raci_assignments \in SeqUpTo(SolveAssignmentSet, MaxGameAssign)
    /\ action_profile = <<>>
    /\ validation = NotCalled
    /\ conflicts = NoConflicts
    /\ replaced = "none"
    /\ payoff = NoPayoff
    /\ nash = NoNash
    /\ solve = [r \in Runs |-> Idle]
    /\ other = NoValidator
    /\ metrics = ZeroMetrics
    /\ pareto = NoPareto
    /\ ImprovementIdle
    /\ ReputationIdle

\* a caller enters stackelberg_equilibrium(actions_by_agent)
SolveCall(r) ==
    \E actions_by_agent \in CandidateDicts :
        /\ solve[r].pc \in {"idle", "done"}
        /\ solve' = [solve EXCEPT ![r] = NewLocals(r, agents, raci_assignments,
                                                   actions_by_agent)]
        /\ UNCHANGED <<validatorVars, raciVars, nashVars, proposalVars,
                   improvementVars, reputationVars>>

\* for agent in sorted_agents: one pass
SolveStep(r) ==
    /\ solve[r].pc = "loop"
    /\ solve[r].i <= Len(solve[r].sorted_agents)
    /\ solve' = [solve EXCEPT ![r] = LoopBody(raci_assignments, solve[r])]
    /\ UNCHANGED <<validatorVars, raciVars, nashVars, proposalVars,
                   improvementVars, reputationVars>>

\* return action_profile
SolveReturn(r) ==
    /\ solve[r].pc = "loop"
    /\ solve[r].i > Len(solve[r].sorted_agents)
    /\ solve' = [solve EXCEPT ![r].pc = "done"]
    /\ UNCHANGED <<validatorVars, raciVars, nashVars, proposalVars,
                   improvementVars, reputationVars>>

NextSolve == \E r \in Runs : SolveCall(r) \/ SolveStep(r) \/ SolveReturn(r)

SpecSolve == InitSolve /\ [][NextSolve]_vars

-----------------------------------------------------------------------------
(* SpecValidators: two validators and two interleaved solves, each on one  *)
(* of the validators                                                       *)

AgentOrders == {<<security, architect, ops>>, <<ops, security, architect>>}

\* two assignment lists: they give security-agent and ops-agent different
\* bonuses on SEC-001 and AU-002
ValidatorAssignments ==
    {<<RACIAssignment("SEC-001", security, architect, <<>>),
       RACIAssignment("AU-002", ops, architect, <<security>>)>>,
     <<RACIAssignment("AU-002", security, architect, <<>>)>>}

\* security-agent with its synthesized actions, ops-agent with the custom
\* ones, the architect with none
MixedCandidates ==
    [id \in {"security-agent", "ops-agent"} |->
        IF id = "security-agent" THEN SynthesizedCandidates[id]
        ELSE CustomCandidates[id]]

ValidatorCandidates == CandidateDicts \cup {MixedCandidates}

\* the validator run r is made on
ValidatorOf(r) ==
    IF r \in other.runs
    THEN [agents |-> other.agents, raci_assignments |-> other.raci_assignments]
    ELSE [agents |-> agents, raci_assignments |-> raci_assignments]

InitValidators ==
    /\ agents \in AgentOrders
    /\ raci_assignments \in ValidatorAssignments
    /\ other \in [agents : AgentOrders, raci_assignments : ValidatorAssignments,
                  runs : {{}, {"run2"}}]
    /\ action_profile = <<>>
    /\ validation = NotCalled
    /\ conflicts = NoConflicts
    /\ replaced = "none"
    /\ payoff = NoPayoff
    /\ nash = NoNash
    /\ solve = [r \in Runs |-> Idle]
    /\ metrics = ZeroMetrics
    /\ pareto = NoPareto
    /\ ImprovementIdle
    /\ ReputationIdle

\* a caller enters stackelberg_equilibrium(actions_by_agent) on the
\* validator of run r
ValidatorSolveCall(r) ==
    \E actions_by_agent \in ValidatorCandidates :
        /\ solve[r].pc \in {"idle", "done"}
        /\ solve' = [solve EXCEPT ![r] =
                        NewLocals(r, ValidatorOf(r).agents,
                                  ValidatorOf(r).raci_assignments,
                                  actions_by_agent)]
        /\ UNCHANGED <<validatorVars, raciVars, nashVars, proposalVars,
                       improvementVars, reputationVars>>

\* for agent in sorted_agents: one pass
ValidatorSolveStep(r) ==
    /\ solve[r].pc = "loop"
    /\ solve[r].i <= Len(solve[r].sorted_agents)
    /\ solve' = [solve EXCEPT ![r] =
                    LoopBody(ValidatorOf(r).raci_assignments, solve[r])]
    /\ UNCHANGED <<validatorVars, raciVars, nashVars, proposalVars,
                   improvementVars, reputationVars>>

\* return action_profile
ValidatorSolveReturn(r) ==
    /\ solve[r].pc = "loop"
    /\ solve[r].i > Len(solve[r].sorted_agents)
    /\ solve' = [solve EXCEPT ![r].pc = "done"]
    /\ UNCHANGED <<validatorVars, raciVars, nashVars, proposalVars,
                   improvementVars, reputationVars>>

NextValidators ==
    \E r \in Runs :
        \/ ValidatorSolveCall(r)
        \/ ValidatorSolveStep(r)
        \/ ValidatorSolveReturn(r)

SpecValidators == InitValidators /\ [][NextValidators]_vars

-----------------------------------------------------------------------------
(* SpecMain: steps 3 and 4 of main(): the equilibrium of the synthesized   *)
(* actions is solved for and then handed to check_nash_equilibrium         *)

MaxAgents == 3

MainPool == {architect, security, ops, dev}

\* lists of distinct agents
MainAgentLists ==
    {s \in SeqUpTo(MainPool, MaxAgents) :
        /\ Len(s) > 0
        /\ \A j, k \in 1..Len(s) : j # k => s[j] # s[k]}

\* assignments that give a bonus on the first or on the second control of
\* security-agent and ops-agent
MainAssignmentSet ==
    SolveAssignmentSet
    \cup {RACIAssignment("MI-003", security, architect, <<>>),
          RACIAssignment("MI-020", ops, architect, <<security>>)}

\* {agent: validator._get_agent_actions(agent) for agent in agents}
SynthesizedFor(as) ==
    [id \in {as[k].agent_id : k \in 1..Len(as)} |->
        _get_agent_actions(CHOOSE a \in Range(as) : a.agent_id = id)]

\* GameState(agents, raci_assignments) with the items of the equilibrium
\* appended to actions_taken
VerifiedState(as, assignments, equilibrium) ==
    [GameState(as, assignments) EXCEPT !.actions_taken = equilibrium]

InitMain ==
    /\ agents \in MainAgentLists
    /\ raci_assignments \in SeqUpTo(MainAssignmentSet, MaxGameAssign)
    /\ action_profile = <<>>
    /\ validation = NotCalled
    /\ conflicts = NoConflicts
    /\ replaced = "none"
    /\ payoff = NoPayoff
    /\ nash = NoNash
    /\ solve = [r \in Runs |-> Idle]
    /\ other = NoValidator
    /\ metrics = ZeroMetrics
    /\ pareto = NoPareto
    /\ ImprovementIdle
    /\ ReputationIdle

\* step 3: equilibrium = validator.stackelberg_equilibrium(actions_by_agent)
MainSolve ==
    /\ solve["run1"].pc = "idle"
    /\ LET returned == stackelberg_equilibrium(agents, raci_assignments,
                                               SynthesizedFor(agents))
       IN  /\ solve' = [solve EXCEPT !["run1"] = returned]
           /\ action_profile' = returned.action_profile
    /\ UNCHANGED <<validatorVars, raciVars, replaced, payoff, nash,
                   proposalVars, improvementVars, reputationVars>>

\* step 4: validator.check_nash_equilibrium(game_state, equilibrium)
MainVerify ==
    /\ solve["run1"].pc = "done"
    /\ nash.status = "none"
    /\ nash' = check_nash_equilibrium(raci_assignments,
                                      VerifiedState(agents, raci_assignments,
                                                    action_profile),
                                      action_profile)
    /\ UNCHANGED <<validatorVars, raciVars, action_profile, replaced, payoff,
                   solve, proposalVars, improvementVars, reputationVars>>

NextMain == MainSolve \/ MainVerify

SpecMain == InitMain /\ [][NextMain]_vars

-----------------------------------------------------------------------------
(* SpecMetrics: is_pareto_improvement on any metrics vector *)

InitMetrics ==
    /\ agents = <<>>
    /\ raci_assignments = <<>>
    /\ validation = NotCalled
    /\ conflicts = NoConflicts
    /\ action_profile = <<>>
    /\ replaced = "none"
    /\ payoff = NoPayoff
    /\ nash = NoNash
    /\ solve = [r \in Runs |-> Idle]
    /\ other = NoValidator
    /\ metrics \in {ImprovementMetrics(cs, ts, qi, rr, cd) :
                       cs \in -MaxDelta..MaxDelta, ts \in -MaxDelta..MaxDelta,
                       qi \in -MaxDelta..MaxDelta, rr \in -MaxDelta..MaxDelta,
                       cd \in -MaxDelta..MaxDelta}
    /\ pareto = NoPareto
    /\ ImprovementIdle
    /\ ReputationIdle

IsParetoImprovement ==
    /\ pareto' = [status |-> "returned", value |-> is_pareto_improvement(metrics)]
    /\ UNCHANGED <<validatorVars, raciVars, nashVars, solve, metrics,
                   improvementVars, reputationVars>>

NextMetrics == IsParetoImprovement

SpecMetrics == InitMetrics /\ [][NextMetrics]_vars

-----------------------------------------------------------------------------
(* SpecRaci: a validator built on any assignment list, then validated *)

RaciPool == {architect, security, dev, observer}
RaciControls == {"APP-001", "SEC-001"}

RaciAssignmentSet ==
    {RACIAssignment(c, r, a, <<>>) :
        c \in RaciControls, r \in RaciPool \cup {None}, a \in RaciPool \cup {None}}

InitRaci ==
    /\ agents = <<architect, security, dev, observer>>
    /\ raci_assignments \in SeqUpTo(RaciAssignmentSet, MaxAssign)
    /\ validation = NotCalled
    /\ conflicts = NoConflicts
    /\ action_profile = <<>>
    /\ replaced = "none"
    /\ payoff = NoPayoff
    /\ nash = NoNash
    /\ solve = [r \in Runs |-> Idle]
    /\ other = NoValidator
    /\ metrics = ZeroMetrics
    /\ pareto = NoPareto
    /\ ImprovementIdle
    /\ ReputationIdle

ValidateRaciConstraints ==
    /\ validation' = validate_raci_constraints(raci_assignments)
    /\ UNCHANGED <<validatorVars, conflicts, nashVars, solve, proposalVars,
                   improvementVars, reputationVars>>

DetectRaciConflicts ==
    /\ conflicts' = detect_raci_conflicts(raci_assignments)
    /\ UNCHANGED <<validatorVars, validation, nashVars, solve, proposalVars,
                   improvementVars, reputationVars>>

NextRaci == ValidateRaciConstraints \/ DetectRaciConflicts

SpecRaci == InitRaci /\ [][NextRaci]_vars

-----------------------------------------------------------------------------
(* SpecPareto: validate_pareto_improvement on any proposal *)

\* no validator of the RACI game is in use
GameIdle ==
    /\ agents = <<>>
    /\ raci_assignments = <<>>
    /\ validation = NotCalled
    /\ conflicts = NoConflicts
    /\ action_profile = <<>>
    /\ replaced = "none"
    /\ payoff = NoPayoff
    /\ nash = NoNash
    /\ solve = [r \in Runs |-> Idle]
    /\ other = NoValidator
    /\ metrics = ZeroMetrics
    /\ pareto = NoPareto

\* total values -100 .. 2700: losses, nothing, and gains around 1.2 times
\* a cost of 100
ParetoMetrics ==
    {ImprovementMetrics(cs, ts, 0, rr, 0) :
        cs \in {-100, 0, 100, 110, 120, 125}, ts \in {0, 1}, rr \in {0, 5}}

ParetoCosts == {-50, 0, 50, 100, 3000}

InitPareto ==
    /\ GameIdle
    /\ ReputationIdle
    /\ proposal \in {Proposal("PROP-001", "agent-a", m, Controls(1), cost, 2, 0) :
                        m \in ParetoMetrics, cost \in ParetoCosts}
    /\ agent_history = <<>>
    /\ review = NoReview
    /\ pareto_check = NoCheck
    /\ complexity = NoComplexity
    /\ earlier = NoEarlier
    /\ truth = NoTruth
    /\ truth_before = NoTruthBefore
    /\ diligence = NoCheck
    /\ portfolio = NoPortfolio

ValidateParetoImprovement ==
    /\ pareto_check' = validate_pareto_improvement(proposal)
    /\ UNCHANGED <<validatorVars, raciVars, nashVars, solve, proposalVars,
                   proposal, agent_history, review, complexity, earlier,
                   truth, truth_before, diligence, portfolio,
                   reputationVars>>

NextPareto == ValidateParetoImprovement

SpecPareto == InitPareto /\ [][NextPareto]_vars

-----------------------------------------------------------------------------
(* CooperativeImprovementValidator.find_pareto_optimal_set                 *)

\* calculate_social_welfare: the sum of the net benefits
RECURSIVE calculate_social_welfare(_)
calculate_social_welfare(proposals) ==
    IF proposals = <<>> THEN 0
    ELSE net_benefit(Head(proposals)) + calculate_social_welfare(Tail(proposals))

\* the proposals that pass validate_pareto_improvement, in their order
valid_proposals(proposals) ==
    SelectSeq(proposals, LAMBDA p : validate_pareto_improvement(p).ok)

\* x < y on two values of roi()
RoiLess(x, y) ==
    IF x.inf THEN FALSE
    ELSE IF y.inf THEN TRUE
    ELSE x.num * y.den < y.num * x.den

\* p put into a list sorted by ROI descending, after the proposals whose
\* ROI is not below its own
InsertByRoi(sorted, p) ==
    LET k == Cardinality({j \in 1..Len(sorted) : ~RoiLess(roi(sorted[j]), roi(p))})
    IN  SubSeq(sorted, 1, k) \o <<p>> \o SubSeq(sorted, k + 1, Len(sorted))

\* sorted(valid_proposals, key=roi, reverse=True): a stable sort, proposals
\* of one ROI keep their order
RECURSIVE SortedByRoi(_, _)
SortedByRoi(proposals, n) ==
    IF n = 0 THEN <<>>
    ELSE InsertByRoi(SortedByRoi(proposals, n - 1), proposals[n])

\* every proposal taken, whatever is left of the budget
AlwaysFits(cost, remaining_budget) == TRUE

\* proposal.implementation_cost_usd <= remaining_budget
Fits(cost, remaining_budget) == cost <= remaining_budget

\* the locals of a call up to the loop
PortfolioLocals(proposals, budget_constraint) ==
    [pc |-> "loop", proposals |-> proposals,
     budget_constraint |-> budget_constraint,
     sorted_proposals |-> SortedByRoi(valid_proposals(proposals),
                                      Len(valid_proposals(proposals))),
     i |-> 1, selected |-> <<>>, remaining_budget |-> budget_constraint]

\* one pass of the selection loop on the locals f
SelectBody(f) ==
    LET p == f.sorted_proposals[f.i]
    IN  IF Fits(p.implementation_cost_usd, f.remaining_budget)
        THEN [f EXCEPT !.selected = Append(@, p),
                       !.remaining_budget = @ - p.implementation_cost_usd,
                       !.i = @ + 1]
        ELSE [f EXCEPT !.i = @ + 1]

-----------------------------------------------------------------------------
(* SpecPortfolio: find_pareto_optimal_set on lists of distinct proposals   *)
(* and a budget, one pass of its selection loop at a time                  *)

MaxProposals == 3

\* proposals of one agent that differ in cost savings and cost: ROI 3, 2.5,
\* 2.2, 1.1 (below the threshold), infinite, negative, and 2.5 again
Candidate(id, cs, cost) ==
    Proposal(id, "agent-a", ImprovementMetrics(cs, 0, 0, 0, 0), Controls(1),
             cost, 2, 0)

PortfolioPool ==
    {Candidate("PROP-001", 30, 10), Candidate("PROP-002", 250, 100),
     Candidate("PROP-003", 110, 50), Candidate("PROP-004", 55, 50),
     Candidate("PROP-005", 20, 0), Candidate("PROP-006", 100, -50),
     Candidate("PROP-007", 150, 60)}

PortfolioLists ==
    {s \in SeqUpTo(PortfolioPool, MaxProposals) :
        \A j, k \in 1..Len(s) : j # k => s[j] # s[k]}

Budgets == {0, 50, 100, 110, 160}

InitPortfolio ==
    /\ GameIdle
    /\ ReputationIdle
    /\ ImprovementIdle

portfolioFrame ==
    <<validatorVars, raciVars, nashVars, solve, proposalVars, proposal,
      agent_history, review, pareto_check, complexity, earlier, truth,
      truth_before, diligence, reputationVars>>

\* a caller enters find_pareto_optimal_set(proposals, budget_constraint)
PortfolioCall ==
    \E proposals \in PortfolioLists, budget_constraint \in Budgets :
        /\ portfolio.pc = "idle"
        /\ portfolio' = PortfolioLocals(proposals, budget_constraint)
        /\ UNCHANGED portfolioFrame

\* for proposal in sorted_proposals: one pass
PortfolioStep ==
    /\ portfolio.pc = "loop"
    /\ portfolio.i <= Len(portfolio.sorted_proposals)
    /\ portfolio' = SelectBody(portfolio)
    /\ UNCHANGED portfolioFrame

\* return selected
PortfolioReturn ==
    /\ portfolio.pc = "loop"
    /\ portfolio.i > Len(portfolio.sorted_proposals)
    /\ portfolio' = [portfolio EXCEPT !.pc = "done"]
    /\ UNCHANGED portfolioFrame

NextPortfolio == PortfolioCall \/ PortfolioStep \/ PortfolioReturn

SpecPortfolio == InitPortfolio /\ [][NextPortfolio]_vars

-----------------------------------------------------------------------------
(* SpecComplexity: complexity_score on any proposal, and again after a    *)
(* caller raised one of its four inputs                                   *)

\* below, at and above the caps 40 hours, 2000 USD and 1500 characters
TimeValues == {-10, 0, 39, 40, 41}
CostValues == {-100, 0, 1950, 2000, 2050}
DescriptionValues == {0, 1450, 1500, 1550}

ComplexityFields ==
    {"affected_controls", "implementation_time_hours",
     "implementation_cost_usd", "description_len"}

\* the values a caller may give the field
FieldValues(field) ==
    CASE field = "affected_controls" -> {Controls(n) : n \in 0..MaxControls}
      [] field = "implementation_time_hours" -> TimeValues
      [] field = "implementation_cost_usd" -> CostValues
      [] field = "description_len" -> DescriptionValues

\* the size the score reads off the field
FieldSize(p, field) ==
    IF field = "affected_controls" THEN Len(p[field]) ELSE p[field]

InitComplexity ==
    /\ GameIdle
    /\ ReputationIdle
    /\ proposal \in {Proposal("PROP-001", "agent-a", ZeroMetrics, c, cost, time, desc) :
                        c \in FieldValues("affected_controls"),
                        cost \in CostValues, time \in TimeValues,
                        desc \in DescriptionValues}
    /\ agent_history = <<>>
    /\ review = NoReview
    /\ pareto_check = NoCheck
    /\ complexity = NoComplexity
    /\ earlier = NoEarlier
    /\ truth = NoTruth
    /\ truth_before = NoTruthBefore
    /\ diligence = NoCheck
    /\ portfolio = NoPortfolio

ComplexityScore ==
    /\ complexity.status = "none"
    /\ complexity' = [status |-> "returned", score |-> complexity_score(proposal)]
    /\ UNCHANGED <<validatorVars, raciVars, nashVars, solve, proposalVars,
                   proposal, agent_history, review, pareto_check, earlier,
                   truth, truth_before, diligence, portfolio,
                   reputationVars>>

\* a caller that holds a score raises one field of the proposal and asks for
\* the score again
RaiseAndScore ==
    /\ complexity.status = "returned"
    /\ \E field \in ComplexityFields :
        \E v \in FieldValues(field) :
            LET raised == [proposal EXCEPT ![field] = v]
            IN  /\ FieldSize(raised, field) > FieldSize(proposal, field)
                /\ proposal' = raised
                /\ earlier' = [field |-> field, proposal |-> proposal,
                               score |-> complexity.score]
                /\ complexity' = [status |-> "returned",
                                  score |-> complexity_score(raised)]
    /\ UNCHANGED <<validatorVars, raciVars, nashVars, solve, proposalVars,
                   agent_history, review, pareto_check,
                   truth, truth_before, diligence, portfolio,
                   reputationVars>>

NextComplexity == ComplexityScore \/ RaiseAndScore

SpecComplexity == InitComplexity /\ [][NextComplexity]_vars

-----------------------------------------------------------------------------
(* SpecTruth: validate_truthful_reporting on any proposal and history, and *)
(* again after a caller turned one past proposal into a bad-pattern one    *)

\* rounds 4 and 5 of test_tit_for_tat.py
PROP004 == Proposal("PROP-004", "agent-a", ImprovementMetrics(4000, 0, 0, 0, 0),
                    Controls(1), 500, 10, 0)
PROP005 == Proposal("PROP-005", "agent-a", ImprovementMetrics(50, 2, 20, 0, 0),
                    Controls(1), 150, 6, 0)

\* a past proposal with no bad pattern
Honest == Proposal("PROP-H", "agent-a", ImprovementMetrics(200, 0, 0, 0, 0),
                   Controls(1), 100, 3, 0)

\* past proposals with one bad pattern, and with both
Underestimated ==
    Proposal("PROP-U", "agent-a", ImprovementMetrics(20000, 0, 0, 0, 0),
             Controls(1), 50, 5, 0)
Overestimated ==
    Proposal("PROP-O", "agent-a", ImprovementMetrics(0, 200, 0, 0, 0),
             Controls(1), 1000, 0, 0)
UnderAndOver ==
    Proposal("PROP-B", "agent-a", ImprovementMetrics(20000, 200, 0, 0, 0),
             Controls(1), 50, 0, 0)

\* a current proposal with the red flag
Disproportionate ==
    Proposal("PROP-R", "agent-a", ImprovementMetrics(60000, 0, 0, 0, 0),
             Controls(1), 400, 6, 0)

BadProposals == {Underestimated, Overestimated, UnderAndOver}
PastProposals == {Honest, PROP004} \cup BadProposals

\* k proposals of one kind, then honest ones
LongHistoryOf(k, bad) ==
    [i \in 1..LongHistory |-> IF i <= k THEN bad ELSE Honest]

Histories ==
    SeqUpTo(PastProposals, MaxHistory)
    \cup {LongHistoryOf(k, bad) : k \in 0..LongHistory, bad \in BadProposals}

InitTruth ==
    /\ GameIdle
    /\ ReputationIdle
    /\ proposal \in {PROP005, Disproportionate, Underestimated}
    /\ agent_history \in Histories
    /\ review = NoReview
    /\ pareto_check = NoCheck
    /\ complexity = NoComplexity
    /\ earlier = NoEarlier
    /\ truth = NoTruth
    /\ truth_before = NoTruthBefore
    /\ diligence = NoCheck
    /\ portfolio = NoPortfolio

ValidateTruthfulReporting ==
    /\ truth.status = "none"
    /\ truth' = validate_truthful_reporting(proposal, agent_history)
    /\ UNCHANGED <<validatorVars, raciVars, nashVars, solve, proposalVars,
                   proposal, agent_history, review, pareto_check, complexity,
                   earlier, truth_before, diligence, portfolio,
                   reputationVars>>

\* a caller that holds a result replaces one past proposal that shows no bad
\* pattern by one that does, and validates the same proposal again
WorsenAndValidate ==
    /\ truth.status = "returned"
    /\ \E i \in 1..Len(agent_history) :
        \E bad \in BadProposals :
            LET worse == [agent_history EXCEPT ![i] = bad]
            IN  /\ ~CostError(agent_history[i]) /\ ~TimeError(agent_history[i])
                /\ worse \in Histories
                /\ agent_history' = worse
                /\ truth_before' = [changed |-> i, history |-> agent_history,
                                    score |-> truth.score]
                /\ truth' = validate_truthful_reporting(proposal, worse)
    /\ UNCHANGED <<validatorVars, raciVars, nashVars, solve, proposalVars,
                   proposal, review, pareto_check, complexity,
                   earlier, diligence, portfolio,
                   reputationVars>>

NextTruth == ValidateTruthfulReporting \/ WorsenAndValidate

SpecTruth == InitTruth /\ [][NextTruth]_vars

-----------------------------------------------------------------------------
(* SpecDiligence: validate_review_diligence on any proposal and review *)

\* proposals of complexity 10, 0 and -10 points
ReviewedProposals ==
    {Proposal("PROP-001", "agent-a", ZeroMetrics, Controls(n), 0, time, 0) :
        <<n, time>> \in {<<2, 0>>, <<0, 0>>, <<0, -10>>}}

\* for a complexity of 10: below and at the minimum of 5 minutes, at and
\* above twice the maximum of 30 minutes
ReviewMinutes == {0, 4, 5, 60, 61}

\* len(comments) around the thresholds 50 and 100
CommentLengths == {0, 49, 50, 100, 101}

Reviews ==
    {HumanReview(st, m, cl, co, q, d) :
        st \in {"approved", "rejected", "pending"},
        m \in ReviewMinutes, cl \in CommentLengths,
        co \in {<<>>, <<"concern">>}, q \in {0, 1}, d \in {<<>>, <<"doc">>}}

InitDiligence ==
    /\ GameIdle
    /\ ReputationIdle
    /\ proposal \in ReviewedProposals
    /\ agent_history = <<>>
    /\ review \in Reviews
    /\ pareto_check = NoCheck
    /\ complexity = NoComplexity
    /\ earlier = NoEarlier
    /\ truth = NoTruth
    /\ truth_before = NoTruthBefore
    /\ diligence = NoCheck
    /\ portfolio = NoPortfolio

ValidateReviewDiligence ==
    /\ diligence' = validate_review_diligence(proposal, review)
    /\ UNCHANGED <<validatorVars, raciVars, nashVars, solve, proposalVars,
                   proposal, agent_history, review, pareto_check, complexity,
                   earlier, truth, truth_before, portfolio,
                   reputationVars>>

NextDiligence == ValidateReviewDiligence

SpecDiligence == InitDiligence /\ [][NextDiligence]_vars

-----------------------------------------------------------------------------
(* SpecReputation: proposals resolved one after the other *)

\* <<predicted value, actual value>> of a resolved proposal: rounds 1 and 4
\* of test_tit_for_tat.py (qualities 0.99 and 0.06), and qualities 0.85,
\* 0.84, 0.50 and 0.49
Outcomes ==
    {<<2625, 2620>>, <<4000, 250>>,
     <<100, 85>>, <<100, 84>>, <<100, 50>>, <<100, 49>>}

\* the number of proposals resolved so far
Rounds(store) ==
    LET a == CHOOSE x \in AgentIds : TRUE
        b == CHOOSE x \in AgentIds : x # a
    IN  Len(store[a].proposal_history) + Len(store[b].proposal_history)

InitReputation ==
    /\ GameIdle
    /\ ImprovementIdle
    /\ ReputationIdle

RecordProposalOutcome ==
    /\ Rounds(reputation) < MaxRounds
    /\ \E a \in AgentIds :
        \E o \in Outcomes :
            LET q == outcome_quality(o[1], o[2])
            IN  /\ reputation' = [reputation EXCEPT ![a] = Recorded(@, q)]
                /\ last_outcome' = [agent_id |-> a, outcome_quality |-> q,
                                    before |-> reputation[a].cooperation_score]
    /\ UNCHANGED <<validatorVars, raciVars, nashVars, solve, proposalVars,
                   improvementVars, resolver, lock, lifecycle>>

NextReputation == RecordProposalOutcome

SpecReputation == InitReputation /\ [][NextReputation]_vars

-----------------------------------------------------------------------------
(* SpecConcurrent: two proposals resolved concurrently, each call taking   *)
(* the lock of its agent's entry around its read and its write             *)

\* the store the calls start on: agent-a is new, agent-b has one defection
\* on record
PriorStore ==
    [a \in AgentIds |->
        IF a = "agent-a" THEN NewReputation
        ELSE Recorded(NewReputation, outcome_quality(4000, 250))]

\* a cooperation, an outcome in between and a defection
ConcurrentOutcomes == {<<2625, 2620>>, <<100, 84>>, <<4000, 250>>}

InitConcurrent ==
    /\ GameIdle
    /\ ImprovementIdle
    /\ reputation = PriorStore
    /\ last_outcome = NoOutcome
    /\ resolver = [w \in Resolvers |-> IdleResolver]
    /\ lock = [a \in AgentIds |-> "free"]
    /\ lifecycle = [id \in ProposalIds |-> NotSubmitted]

concurrentFrame == <<validatorVars, raciVars, nashVars, solve, proposalVars,
                     improvementVars, last_outcome, lifecycle>>

\* record_proposal_outcome is called: the outcome quality is computed
ResolveCall(w) ==
    /\ resolver[w].pc = "idle"
    /\ \E a \in AgentIds :
        \E o \in ConcurrentOutcomes :
            resolver' = [resolver EXCEPT ![w] =
                            [pc |-> "called", agent_id |-> a,
                             outcome_quality |-> outcome_quality(o[1], o[2]),
                             score |-> 0]]
    /\ UNCHANGED <<concurrentFrame, reputation, lock>>

ResolveAcquire(w) ==
    /\ resolver[w].pc = "called"
    /\ LockFree(resolver[w].agent_id)
    /\ lock' = [lock EXCEPT ![resolver[w].agent_id] = w]
    /\ resolver' = [resolver EXCEPT ![w].pc = "locked"]
    /\ UNCHANGED <<concurrentFrame, reputation>>

ResolveRead(w) ==
    /\ resolver[w].pc = "locked"
    /\ resolver' = [resolver EXCEPT
                       ![w].pc = "read",
                       ![w].score = reputation[resolver[w].agent_id].cooperation_score]
    /\ UNCHANGED <<concurrentFrame, reputation, lock>>

ResolveWrite(w) ==
    /\ resolver[w].pc = "read"
    /\ reputation' = [reputation EXCEPT ![resolver[w].agent_id] =
                         AgentReputation(
                             next_score(resolver[w].score,
                                        resolver[w].outcome_quality),
                             Append(@.proposal_history,
                                    resolver[w].outcome_quality))]
    /\ resolver' = [resolver EXCEPT ![w].pc = "written"]
    /\ UNCHANGED <<concurrentFrame, lock>>

ResolveRelease(w) ==
    /\ resolver[w].pc = "written"
    /\ lock' = [lock EXCEPT ![resolver[w].agent_id] = "free"]
    /\ resolver' = [resolver EXCEPT ![w].pc = "done"]
    /\ UNCHANGED <<concurrentFrame, reputation>>

NextConcurrent ==
    \E w \in Resolvers :
        \/ ResolveCall(w)
        \/ ResolveAcquire(w)
        \/ ResolveRead(w)
        \/ ResolveWrite(w)
        \/ ResolveRelease(w)

SpecConcurrent == InitConcurrent /\ [][NextConcurrent]_vars

-----------------------------------------------------------------------------
(* SpecLifecycle: proposals submitted, reviewed and resolved, with         *)
(* record_proposal_outcome called again on proposals already resolved      *)

InitLifecycle ==
    /\ GameIdle
    /\ ImprovementIdle
    /\ ReputationIdle

lifecycleFrame == <<validatorVars, raciVars, nashVars, solve, proposalVars,
                    improvementVars, resolver, lock>>

\* the agent submits the proposal
SubmitProposal(id) ==
    /\ lifecycle[id].stage = "none"
    /\ lifecycle' = [lifecycle EXCEPT ![id].stage = "proposed"]
    /\ UNCHANGED <<lifecycleFrame, reputation, last_outcome>>

\* the human review ends in an approval or a rejection
ReviewProposal(id) ==
    /\ lifecycle[id].stage = "proposed"
    /\ \E approved \in BOOLEAN :
        lifecycle' = [lifecycle EXCEPT ![id].stage = "reviewed",
                                       ![id].approved = approved]
    /\ UNCHANGED <<lifecycleFrame, reputation, last_outcome>>

\* record_proposal_outcome(proposal, actual, approved) on a reviewed
\* proposal, for the first time or again
RecordOutcome(id) ==
    /\ lifecycle[id].stage \in {"reviewed", "resolved"}
    /\ lifecycle[id].calls < MaxCalls
    /\ \E o \in ConcurrentOutcomes :
        LET a == ProposalAgent(id)
            q == outcome_quality(o[1], o[2])
        IN  IF Applies(lifecycle[id])
            THEN /\ reputation' = [reputation EXCEPT ![a] = Recorded(@, q)]
                 /\ last_outcome' = [agent_id |-> a, outcome_quality |-> q,
                                     before |-> reputation[a].cooperation_score]
            ELSE UNCHANGED <<reputation, last_outcome>>
    /\ lifecycle' = [lifecycle EXCEPT ![id].stage = "resolved",
                                      ![id].calls = @ + 1]
    /\ UNCHANGED lifecycleFrame

NextLifecycle ==
    \E id \in ProposalIds :
        \/ SubmitProposal(id)
        \/ ReviewProposal(id)
        \/ RecordOutcome(id)

SpecLifecycle == InitLifecycle /\ [][NextLifecycle]_vars

-----------------------------------------------------------------------------
(* Claims on the RACI constraint validator and the conflict detector *)

\* the four conditions of the specification for one assignment
SpecConditions(a) ==
    /\ ~IsNone(a.accountable)
    /\ ~IsNone(a.responsible)
    /\ a.responsible # a.accountable
    /\ a.accountable.tier >= a.responsible.tier

HasViolationFor(control) ==
    \E k \in 1..Len(validation.violations) :
        validation.violations[k].control_id = control

\* C1: validate_raci_constraints returns ok=true if and only if every
\* assignment has an accountable, has a responsible, the two differ and
\* accountable.tier >= responsible.tier; an assignment that breaks one of the
\* four makes ok=false with a violation naming its control, and
\* responsible == accountable gives the "cannot be both" message.
C1_OkIffFourConditions ==
    validation.status = "returned" =>
        /\ validation.ok <=>
               \A i \in 1..Len(raci_assignments) : SpecConditions(raci_assignments[i])
        /\ \A i \in 1..Len(raci_assignments) :
               ~SpecConditions(raci_assignments[i]) =>
                   /\ ~validation.ok
                   /\ HasViolationFor(raci_assignments[i].control_id)
        /\ \A i \in 1..Len(raci_assignments) :
               LET a == raci_assignments[i]
               IN  (a.responsible = a.accountable /\ ~IsNone(a.responsible)) =>
                       \E k \in 1..Len(validation.violations) :
                           /\ validation.violations[k].control_id = a.control_id
                           /\ validation.violations[k].text =
                                  "cannot be both Responsible and Accountable"

\* the checks of one assignment that fail for a missing or doubled agent
MissingChecks(a) ==
    (IF IsNone(a.accountable) THEN 1 ELSE 0)
    + (IF IsNone(a.responsible) THEN 1 ELSE 0)
    + (IF a.responsible = a.accountable THEN 1 ELSE 0)

RECURSIVE SumMissing(_, _)
SumMissing(assignments, i) ==
    IF i > Len(assignments) THEN 0
    ELSE MissingChecks(assignments[i]) + SumMissing(assignments, i + 1)

\* C2: validate_raci_constraints never raises and never stops early: whatever
\* the assignments are, also with the responsible, the accountable or both
\* missing, a call returns (ok, violations) with an entry for every failed
\* check of every control.
C2_NeverRaises ==
    validation.status # "none" =>
        /\ validation.status = "returned"
        /\ Len(validation.violations) >= SumMissing(raci_assignments, 1)

\* C3: two assignments of one control that name different accountable agents
\* make validate_raci_constraints return ok=false with a violation for that
\* control.
C3_OneAccountablePerControl ==
    validation.status = "returned" =>
        \A i, j \in 1..Len(raci_assignments) :
            LET a == raci_assignments[i]
                b == raci_assignments[j]
            IN  (/\ a.control_id = b.control_id
                 /\ ~IsNone(a.accountable) /\ ~IsNone(b.accountable)
                 /\ a.accountable # b.accountable) =>
                    ~validation.ok /\ HasViolationFor(a.control_id)

\* the distinct agents Responsible for a control
ResponsibleAgents(control) ==
    {raci_assignments[i].responsible.agent_id :
        i \in {k \in 1..Len(raci_assignments) :
                  /\ raci_assignments[k].control_id = control
                  /\ ~IsNone(raci_assignments[k].responsible)}}

\* C4: detect_raci_conflicts reports an overlapping_responsible conflict of
\* severity high for a control if and only if more than one distinct agent is
\* Responsible for it; assignments that all name the same Responsible make no
\* conflict, and the conflict's agents are the competing ones.
C4_OverlapIffDistinctResponsibles ==
    conflicts.status = "returned" =>
        \A c \in RaciControls :
            LET found == {k \in 1..Len(conflicts.conflicts) :
                             /\ conflicts.conflicts[k].type = "overlapping_responsible"
                             /\ conflicts.conflicts[k].control_id = c}
            IN  /\ (found # {}) <=> (Cardinality(ResponsibleAgents(c)) > 1)
                /\ \A k \in found :
                       /\ conflicts.conflicts[k].severity = "high"
                       /\ Range(conflicts.conflicts[k].agents) = ResponsibleAgents(c)

-----------------------------------------------------------------------------
(* Claims on the payoff model and the Nash verifier *)

IsResponsibleFor(agent, control) ==
    \E i \in 1..Len(raci_assignments) :
        /\ raci_assignments[i].control_id = control
        /\ raci_assignments[i].responsible = agent

IsConsultedFor(agent, control) ==
    \E i \in 1..Len(raci_assignments) :
        /\ raci_assignments[i].control_id = control
        /\ agent \in Range(raci_assignments[i].consulted)

\* C5: the payoff is compliance_value - cost * cost_multiplier
\* - risk * (1 - risk_tolerance) + bonus, and for every assignment list the
\* bonus is exactly 2.0 when the agent is Responsible for the action's
\* control, exactly 0.5 when it is Consulted and not Responsible, else 0.
C5_BonusIsTwoHalfOrZero ==
    ~IsNone(payoff.agent) =>
        LET bonus == IF IsResponsibleFor(payoff.agent, payoff.action.control_id)
                     THEN 200
                     ELSE IF IsConsultedFor(payoff.agent, payoff.action.control_id)
                          THEN 50
                          ELSE 0
        IN  /\ payoff.cooperation_bonus = bonus
            /\ payoff.payoff =
                   10 * payoff.action.compliance_value
                   - payoff.action.cost * payoff.agent.cost_per_action
                   - payoff.action.risk * (10 - payoff.agent.risk_tolerance)
                   + bonus

\* the payoff the verifier compares, for the validator's assignments
PayoffOf(agent, action) ==
    calculate_payoff(raci_assignments, agent, action,
                     GameState(agents, raci_assignments)).payoff

\* the (profile entry, alternative) pairs whose alternative pays more than
\* the assigned action by more than 0.01
Improvements ==
    UNION {{<<i, k>> : k \in {j \in 1..Len(_get_agent_actions(action_profile[i].agent)) :
                PayoffOf(action_profile[i].agent,
                         _get_agent_actions(action_profile[i].agent)[j])
                  > PayoffOf(action_profile[i].agent, action_profile[i].action) + 1}} :
           i \in 1..Len(action_profile)}

Flagged(i, k) ==
    \E d \in 1..Len(nash.violations) :
        /\ nash.violations[d].agent_id = action_profile[i].agent.agent_id
        /\ nash.violations[d].from = action_profile[i].action.action_id
        /\ nash.violations[d].to =
               _get_agent_actions(action_profile[i].agent)[k].action_id

\* C8: check_nash_equilibrium records a deviation for an agent and an
\* alternative exactly when the alternative's payoff exceeds the assigned
\* action's by more than 0.01; every agent and every alternative is checked
\* (one deviation per improving pair), and is_equilibrium is true exactly
\* when no deviation was recorded.
C8_DeviationIffAboveEpsilon ==
    nash.status = "returned" =>
        /\ \A i \in 1..Len(action_profile) :
               \A k \in 1..Len(_get_agent_actions(action_profile[i].agent)) :
                   Flagged(i, k) <=> <<i, k>> \in Improvements
        /\ Len(nash.violations) = Cardinality(Improvements)
        /\ nash.is_equilibrium <=> (nash.violations = <<>>)

\* the verifier ran on a profile with an alternative it flags and an
\* alternative that pays exactly 0.01 more, which it does not flag
C8_Witness ==
    /\ nash.status = "returned"
    /\ Len(nash.violations) > 0
    /\ \E i \in 1..Len(action_profile) :
           \E k \in 1..Len(_get_agent_actions(action_profile[i].agent)) :
               /\ PayoffOf(action_profile[i].agent,
                           _get_agent_actions(action_profile[i].agent)[k])
                    = PayoffOf(action_profile[i].agent, action_profile[i].action) + 1
               /\ ~Flagged(i, k)

\* entry i holds a candidate action of its agent that another candidate
\* action of that agent strictly dominates
Dominated(i) ==
    LET agent == action_profile[i].agent
        candidates == Range(_get_agent_actions(agent))
    IN  /\ action_profile[i].action \in candidates
        /\ \E c \in candidates :
               PayoffOf(agent, c) > PayoffOf(agent, action_profile[i].action)

-----------------------------------------------------------------------------
(* Claims on the Stackelberg solver *)

\* C6: stackelberg_equilibrium is deterministic: two finished solves of one
\* validator on the same candidate actions hold the same action profile,
\* whatever solves the validator ran before or in between.
C6_SolveDeterministic ==
    \A r1, r2 \in Runs :
        (/\ solve[r1].pc = "done"
         /\ solve[r2].pc = "done"
         /\ solve[r1].actions_by_agent = solve[r2].actions_by_agent) =>
            Range(solve[r1].action_profile) = Range(solve[r2].action_profile)

\* two solves on the same candidates have finished, with an agent that chose
\* an action and an agent that chose none
C6_Witness ==
    /\ \A r \in Runs : solve[r].pc = "done"
    /\ solve["run1"].actions_by_agent = solve["run2"].actions_by_agent
    /\ Len(solve["run1"].action_profile) > 0
    /\ Len(solve["run1"].action_profile) < Len(agents)

\* the action run r holds for an agent, NoneAction when it holds none
Chosen(r, agent) ==
    IF \E k \in 1..Len(solve[r].action_profile) :
           solve[r].action_profile[k].agent = agent
    THEN (CHOOSE it \in Range(solve[r].action_profile) : it.agent = agent).action
    ELSE NoneAction

\* the candidates of the agent at position j of run r, and their payoffs
CandidatesAt(r, j) ==
    Available(solve[r].actions_by_agent, solve[r].sorted_agents[j])

PayoffAt(r, j, k) == PayoffOf(solve[r].sorted_agents[j], CandidatesAt(r, j)[k])

\* C7: for every agent the solver has processed, the chosen action attains
\* the maximum payoff over the agent's candidate list and is the first-listed
\* of the candidates that do, and the agent has no action exactly when no
\* candidate has a payoff > 0.
C7_BestResponse ==
    \A r \in Runs :
        \A j \in 1..(solve[r].i - 1) :
            LET n == Len(CandidatesAt(r, j))
                c == Chosen(r, solve[r].sorted_agents[j])
            IN  /\ (c = NoneAction) <=> (\A k \in 1..n : PayoffAt(r, j, k) <= 0)
                /\ c # NoneAction =>
                       \E k \in 1..n :
                           /\ CandidatesAt(r, j)[k] = c
                           /\ \A m \in 1..n : PayoffAt(r, j, m) <= PayoffAt(r, j, k)
                           /\ \A m \in 1..(k - 1) : PayoffAt(r, j, m) < PayoffAt(r, j, k)

\* a finished solve in which one agent's best payoff was tied between two
\* candidates and another agent's best payoff was exactly 0
C7_Witness ==
    \E r \in Runs :
        /\ solve[r].pc = "done"
        /\ \E j \in 1..Len(solve[r].sorted_agents) :
               \E k1, k2 \in 1..Len(CandidatesAt(r, j)) :
                   /\ k1 < k2
                   /\ PayoffAt(r, j, k1) = PayoffAt(r, j, k2)
                   /\ \A m \in 1..Len(CandidatesAt(r, j)) :
                          PayoffAt(r, j, m) <= PayoffAt(r, j, k1)
                   /\ Chosen(r, solve[r].sorted_agents[j]) = CandidatesAt(r, j)[k1]
        /\ \E j \in 1..Len(solve[r].sorted_agents) :
               /\ Len(CandidatesAt(r, j)) > 0
               /\ \A m \in 1..Len(CandidatesAt(r, j)) : PayoffAt(r, j, m) <= 0
               /\ \E m \in 1..Len(CandidatesAt(r, j)) : PayoffAt(r, j, m) = 0
               /\ Chosen(r, solve[r].sorted_agents[j]) = NoneAction

-----------------------------------------------------------------------------
(* Claims on ImprovementMetrics *)

\* C10: is_pareto_improvement is true if and only if all five deltas are
\* >= 0 and at least one is > 0; the all-zero vector is not a Pareto
\* improvement, and no vector with a negative delta is.
C10_ParetoIffNoLossAndAGain ==
    pareto.status = "returned" =>
        /\ pareto.value <=>
               /\ metrics.cost_savings_usd >= 0
               /\ metrics.time_savings_hours >= 0
               /\ metrics.quality_improvement_pct >= 0
               /\ metrics.risk_reduction_pct >= 0
               /\ metrics.compliance_score_delta >= 0
               /\ \/ metrics.cost_savings_usd > 0
                  \/ metrics.time_savings_hours > 0
                  \/ metrics.quality_improvement_pct > 0
                  \/ metrics.risk_reduction_pct > 0
                  \/ metrics.compliance_score_delta > 0
        /\ metrics = ZeroMetrics => ~pareto.value
        /\ (\/ metrics.cost_savings_usd < 0
            \/ metrics.time_savings_hours < 0
            \/ metrics.quality_improvement_pct < 0
            \/ metrics.risk_reduction_pct < 0
            \/ metrics.compliance_score_delta < 0) => ~pareto.value

\* is_pareto_improvement has answered on the all-zero vector
C10_Witness ==
    /\ pareto.status = "returned"
    /\ metrics = ZeroMetrics
    /\ ~pareto.value

-----------------------------------------------------------------------------
(* Claims on validate_pareto_improvement *)

\* roi >= 1.2, with roi infinite on a zero cost and a positive total value
\* and 0 on a zero cost otherwise
RoiAtLeastMinimum(p) ==
    LET tv == total_value(p.metrics)
        cost == p.implementation_cost_usd
    IN  IF cost = 0 THEN tv > 0
        ELSE IF cost > 0 THEN 10 * tv >= 12 * cost
        ELSE 10 * tv <= 12 * cost

\* the three conditions, by the name of the issue each one contributes
ParetoConditions(p) ==
    [not_pareto |-> is_pareto_improvement(p.metrics),
     net_benefit |-> total_value(p.metrics) - p.implementation_cost_usd > 0,
     roi |-> RoiAtLeastMinimum(p)]

ScenarioC(p) ==
    /\ p.metrics = ImprovementMetrics(125, 0, 0, 5, 0)
    /\ p.implementation_cost_usd = 50

\* C11: validate_pareto_improvement returns ok exactly when the metrics are
\* a Pareto improvement, the net benefit is positive and the ROI is at
\* least 1.2; its issues hold exactly one entry for each condition that
\* fails; the proposal saving 125 USD and 5 % risk at a cost of 50 passes
\* with no issue.
C11_OkIffThreeConditions ==
    pareto_check.status = "returned" =>
        LET c == ParetoConditions(proposal)
            failing == {n \in DOMAIN c : ~c[n]}
        IN  /\ pareto_check.ok <=> failing = {}
            /\ Range(pareto_check.issues) = failing
            /\ Len(pareto_check.issues) = Cardinality(failing)
            /\ ScenarioC(proposal) =>
                   pareto_check.ok /\ pareto_check.issues = <<>>

C11_Witness ==
    /\ pareto_check.status = "returned"
    /\ ScenarioC(proposal)
    /\ pareto_check.ok

-----------------------------------------------------------------------------
(* Claims on complexity_score *)

\* C12: complexity_score is always within 0..100 points, also for a negative
\* implementation time or cost.
C12_WithinZeroAndHundred ==
    complexity.status = "returned" =>
        complexity.score >= 0 /\ complexity.score <= 100 * 100

\* the cap the claim names for the field, in the unit of the field; the
\* number of affected controls has none
ClaimedCap(field) ==
    CASE field = "implementation_time_hours" -> 40
      [] field = "implementation_cost_usd" -> 2000
      [] field = "description_len" -> 1500

\* C13: raising the implementation time, the cost, the number of affected
\* controls or the description length never lowers complexity_score, and
\* raising an input that is at or beyond its cap of 40 hours, 2000 USD or
\* 1500 characters, or any input once the score is 100, leaves the score
\* as it was.
C13_MonotoneUpToCaps ==
    earlier.field # "none" =>
        /\ complexity.score >= earlier.score
        /\ earlier.score = 100 * 100 => complexity.score = earlier.score
        /\ (/\ earlier.field # "affected_controls"
            /\ earlier.proposal[earlier.field] >= ClaimedCap(earlier.field))
           => complexity.score = earlier.score

C13_Witness ==
    /\ earlier.field = "implementation_time_hours"
    /\ earlier.proposal.implementation_time_hours = 40
    /\ proposal.implementation_time_hours = 41
    /\ earlier.score < 100 * 100
    /\ complexity.score = earlier.score

-----------------------------------------------------------------------------
(* Claims on validate_truthful_reporting *)

\* C14: with an empty agent history validate_truthful_reporting returns the
\* score 0.9 and a warning, whatever the current proposal is.
C14_NewAgentScore ==
    (truth.status = "returned" /\ agent_history = <<>>) =>
        truth.score = 90 /\ Len(truth.warnings) >= 1

C14_Witness ==
    /\ truth.status = "returned"
    /\ agent_history = <<>>
    /\ proposal = Disproportionate
    /\ truth.score = 90

\* the number of past proposals showing the pattern
UnderestimatedCount(history) == Len(SelectSeq(history, CostError))
OverestimatedCount(history) == Len(SelectSeq(history, TimeError))

\* the pattern warnings among the warnings
PatternWarnings(warnings) ==
    Range(warnings) \cap {"underestimates_costs", "overestimates_benefits"}

\* C15: the truthfulness score is always within 0..1; turning a past
\* proposal without a bad pattern into one with a bad pattern, the current
\* proposal and the history length staying as they are, never raises the
\* score; a pattern is charged, 0.2 each, exactly when the share of past
\* proposals showing it is strictly above 30 %.
C15_ScoreBoundedAndMonotone ==
    /\ truth.status = "returned" => truth.score >= 0 /\ truth.score <= 100
    /\ truth_before.changed # 0 => truth.score <= truth_before.score
    /\ (truth.status = "returned" /\ agent_history # <<>>) =>
        LET n == Len(agent_history)
        IN  /\ "underestimates_costs" \in Range(truth.warnings)
                <=> 100 * UnderestimatedCount(agent_history) > 30 * n
            /\ "overestimates_benefits" \in Range(truth.warnings)
                <=> 100 * OverestimatedCount(agent_history) > 30 * n
            /\ truth.score =
                   100 - 20 * Cardinality(PatternWarnings(truth.warnings))
                       - (IF "red_flag" \in Range(truth.warnings) THEN 10 ELSE 0)

\* a fourth underestimated cost among ten past proposals: the share goes
\* from exactly 30 % to 40 % and the score from 1.0 to 0.8
C15_Witness ==
    /\ truth_before.changed # 0
    /\ Len(agent_history) = 10
    /\ UnderestimatedCount(truth_before.history) = 3
    /\ UnderestimatedCount(agent_history) = 4
    /\ truth_before.score = 100
    /\ truth.score = 80

\* C16: when the agent's history holds the proposal that claimed savings of
\* 4000 USD on a cost of 500 USD (and realized 1500 USD),
\* validate_truthful_reporting on the agent's next proposal reports the
\* pattern of overestimated benefits and charges it on the score.
C16_ScenarioDFlagged ==
    (/\ truth.status = "returned"
     /\ proposal = PROP005
     /\ \E i \in 1..Len(agent_history) : agent_history[i] = PROP004) =>
        /\ "overestimates_benefits" \in Range(truth.warnings)
        /\ truth.score <= 100 - 20

-----------------------------------------------------------------------------
(* Claims on validate_review_diligence *)

\* the five conditions, by the name of the issue each one contributes; the
\* complexity c is in hundredths of a point
DiligenceFailures(p, r) ==
    LET c == complexity_score(p)
        m == r.review_duration_minutes
        engagement == Cardinality({k \in 1..4 :
                          <<r.questions_asked > 0,
                            Len(r.documents_reviewed) >= 1,
                            r.comments_len > 100,
                            Len(r.concerns_raised) >= 1>>[k]})
    IN  [too_short |-> 200 * m < c,
         too_long |-> 100 * m > 2 * (3 * c),
         comments |-> r.status = "approved" /\ r.comments_len < 50,
         no_concerns |-> r.status = "rejected" /\ Len(r.concerns_raised) = 0,
         engagement |-> engagement < 2]

\* C17: validate_review_diligence returns is_diligent exactly when none of
\* five conditions holds: the duration is below 0.5 times the complexity,
\* above twice 3.0 times the complexity, an approval has comments shorter
\* than 50 characters, a rejection has no concerns, or fewer than two of
\* the four engagement markers are present; every condition that holds
\* contributes its own issue.
C17_DiligentIffNoCondition ==
    diligence.status = "returned" =>
        LET f == DiligenceFailures(proposal, review)
            failing == {n \in DOMAIN f : f[n]}
        IN  /\ diligence.ok <=> failing = {}
            /\ Range(diligence.issues) = failing
            /\ Len(diligence.issues) = Cardinality(failing)

\* a rubber-stamp approval: too short, no comments, no engagement
C17_Witness ==
    /\ diligence.status = "returned"
    /\ review.status = "approved"
    /\ ~diligence.ok
    /\ Len(diligence.issues) = 3

-----------------------------------------------------------------------------
(* Claims on the reputation tracker *)

\* C18: cooperation_score starts at 1.0 and stays within 0..1; a resolved
\* proposal of outcome quality at least 0.85 sets it to min(1.0, score +
\* 0.05), one of quality below 0.5 to max(0.0, score - 0.3), and one of a
\* quality in between leaves it as it was.
C18_UpdateRule ==
    /\ \A a \in AgentIds :
        /\ reputation[a].cooperation_score >= 0
        /\ reputation[a].cooperation_score <= 100
        /\ reputation[a].proposal_history = <<>>
               => reputation[a].cooperation_score = 100
    /\ last_outcome.agent_id # "none" =>
        LET q == last_outcome.outcome_quality
            before == last_outcome.before
            after == reputation[last_outcome.agent_id].cooperation_score
        IN  /\ q >= 85 => after = (IF before + 5 <= 100 THEN before + 5 ELSE 100)
            /\ q < 50 => after = (IF before - 30 >= 0 THEN before - 30 ELSE 0)
            /\ (q >= 50 /\ q < 85) => after = before

\* a fourth defection in a row: 0.1 - 0.3 is held at 0
C18_Witness ==
    /\ last_outcome.agent_id # "none"
    /\ last_outcome.outcome_quality < 50
    /\ last_outcome.before = 10
    /\ reputation[last_outcome.agent_id].cooperation_score = 0

\* the agent's first resolved proposal was a defection
DefectedFirst(rep) ==
    /\ Len(rep.proposal_history) >= 1
    /\ rep.proposal_history[1] < 50

\* a defection followed by exactly three cooperative rounds
ScenarioE(rep) ==
    /\ DefectedFirst(rep)
    /\ Len(rep.proposal_history) = 4
    /\ \A k \in 2..4 : rep.proposal_history[k] >= 85

RECURSIVE SerialScores(_, _)
SerialScores(score, ws) ==
    IF ws = {} THEN {score}
    ELSE UNION {SerialScores(
                    IF resolver[w].outcome_quality >= 85
                    THEN (IF score + 5 <= 100 THEN score + 5 ELSE 100)
                    ELSE IF resolver[w].outcome_quality < 50
                    THEN (IF score - 30 >= 0 THEN score - 30 ELSE 0)
                    ELSE score,
                    ws \ {w}) : w \in ws}

\* the calls that resolve a proposal of the agent
CallsFor(a) == {w \in Resolvers : resolver[w].agent_id = a}

\* C20: once two concurrent resolutions have returned, the score of every
\* agent is what applying the updates of that agent's resolutions one after
\* the other, in some order, gives: no update is lost, and a resolution for
\* one agent leaves the other agent's score alone.
C20_NoLostUpdate ==
    (\A w \in Resolvers : resolver[w].pc = "done") =>
        \A a \in AgentIds :
            /\ reputation[a].cooperation_score
                   \in SerialScores(PriorStore[a].cooperation_score, CallsFor(a))
            /\ Len(reputation[a].proposal_history)
                   = Len(PriorStore[a].proposal_history) + Cardinality(CallsFor(a))

\* a cooperation and a defection resolved concurrently for the new agent
C20_Witness ==
    /\ \A w \in Resolvers : resolver[w].pc = "done"
    /\ CallsFor("agent-a") = Resolvers
    /\ \E w \in Resolvers : resolver[w].outcome_quality >= 85
    /\ \E w \in Resolvers : resolver[w].outcome_quality < 50
    /\ reputation["agent-a"].cooperation_score \in {70, 75}

\* the approved proposals of the agent whose outcome is recorded
ResolvedFor(l, a) ==
    {id \in ProposalIds :
        ProposalAgent(id) = a /\ l[id].stage = "resolved" /\ l[id].approved}

\* what one step may do to the reputations and to the stages
OncePerResolvedProposal ==
    /\ \A a \in AgentIds :
        /\ reputation'[a] # reputation[a] =>
               \E id \in ProposalIds :
                   /\ ProposalAgent(id) = a
                   /\ lifecycle[id].approved
                   /\ lifecycle[id].stage = "reviewed"
                   /\ lifecycle'[id].stage = "resolved"
        /\ Len(reputation'[a].proposal_history)
               = Cardinality(ResolvedFor(lifecycle', a))
    /\ \A id \in ProposalIds :
        lifecycle'[id].stage # lifecycle[id].stage =>
            <<lifecycle[id].stage, lifecycle'[id].stage>>
                \in {<<"none", "proposed">>, <<"proposed", "reviewed">>,
                     <<"reviewed", "resolved">>}

\* C21: an agent's score and history change only in the step that records
\* the outcome of an approved, reviewed proposal of that agent; every such
\* proposal is in the history exactly once, however often its outcome is
\* recorded; and a proposal goes from submission to review to outcome, in
\* this order.
C21_OncePerResolvedProposal == [][OncePerResolvedProposal]_vars

\* the outcome of an approved proposal was recorded twice and is in the
\* history once; the outcome of a rejected proposal changed nothing
C21_Witness ==
    /\ lifecycle["PROP-001"].approved
    /\ lifecycle["PROP-001"].calls = 2
    /\ Len(reputation["agent-a"].proposal_history) = 1
    /\ lifecycle["PROP-002"].stage = "resolved"
    /\ ~lifecycle["PROP-002"].approved
    /\ reputation["agent-b"] = NewReputation

-----------------------------------------------------------------------------
(* Claims on interleaved solves *)

\* the sum of a field over the actions of the items
RECURSIVE SumOf(_, _)
SumOf(items, field) ==
    IF items = <<>> THEN 0
    ELSE Head(items).action[field] + SumOf(Tail(items), field)

\* C22: at every point of two interleaved solves, on one validator or on
\* two, each solve holds the action profile and the running totals it holds
\* at that point when it runs alone, and its GameState holds its own
\* choices and nothing else: actions_taken are the entries of its profile
\* and compliance, cost and risk are their sums.
C22_RunsIsolated ==
    \A r \in Runs :
        solve[r].pc # "idle" =>
            LET v == ValidatorOf(r)
                alone == Passes(v.raci_assignments,
                                NewLocals(r, v.agents, v.raci_assignments,
                                          solve[r].actions_by_agent),
                                solve[r].i - 1)
                gs == solve[r].game_state
            IN  /\ solve[r].action_profile = alone.action_profile
                /\ gs = alone.game_state
                /\ gs.actions_taken = solve[r].action_profile
                /\ gs.compliance_score = SumOf(solve[r].action_profile,
                                               "compliance_value")
                /\ gs.total_cost = SumOf(solve[r].action_profile, "cost")
                /\ gs.total_risk = SumOf(solve[r].action_profile, "risk")

\* two solves have returned, on two validators with different assignments,
\* with different totals
C22_Witness ==
    /\ other.runs = {"run2"}
    /\ other.raci_assignments # raci_assignments
    /\ \A r \in Runs : solve[r].pc = "done"
    /\ solve["run1"].game_state.total_cost > 0
    /\ solve["run2"].game_state.total_cost > solve["run1"].game_state.total_cost

\* C29: two finished solves on validators with the same assignments hold
\* the same action for every agent whose candidate list is the same in
\* both, whatever the order of the agent lists and whatever the candidates
\* of the other agents.
C29_ChoiceIndependentOfOthers ==
    \A r1, r2 \in Runs :
        (/\ solve[r1].pc = "done"
         /\ solve[r2].pc = "done"
         /\ ValidatorOf(r1).raci_assignments = ValidatorOf(r2).raci_assignments) =>
            \A agent \in Range(ValidatorOf(r1).agents) :
                Available(solve[r1].actions_by_agent, agent)
                    = Available(solve[r2].actions_by_agent, agent)
                => Chosen(r1, agent) = Chosen(r2, agent)

\* two finished solves on agent lists in different orders, with different
\* candidates for ops-agent and the architect: security-agent chose the same
\* action in both, after different agents and on different running totals
C29_Witness ==
    /\ other.runs = {"run2"}
    /\ other.agents # agents
    /\ other.raci_assignments = raci_assignments
    /\ \A r \in Runs : solve[r].pc = "done"
    /\ solve["run1"].actions_by_agent = SynthesizedCandidates
    /\ solve["run2"].actions_by_agent = MixedCandidates
    /\ Chosen("run1", security) # NoneAction
    /\ Chosen("run1", security) = Chosen("run2", security)
    /\ Chosen("run1", ops) # Chosen("run2", ops)
    /\ solve["run1"].game_state.actions_taken[1].agent
           # solve["run2"].game_state.actions_taken[1].agent

-----------------------------------------------------------------------------
(* Claims on the order of the solver's decisions                           *)

\* the position of agent a in the list as
PositionIn(as, a) == CHOOSE k \in 1..Len(as) : as[k] = a

\* the agents run r has decided on so far, in the order it decided
Decided(r) == SubSeq(solve[r].sorted_agents, 1, solve[r].i - 1)

-----------------------------------------------------------------------------
(* Claims relating the two RACI checks                                     *)

\* C24: once both checks have returned on a validator, every control for
\* which detect_raci_conflicts reports a tier_hierarchy_violation has made
\* validate_raci_constraints return ok=false with a violation naming that
\* control.
C24_TierConflictFailsValidation ==
    (validation.status = "returned" /\ conflicts.status = "returned") =>
        \A k \in 1..Len(conflicts.conflicts) :
            conflicts.conflicts[k].type = "tier_hierarchy_violation" =>
                /\ conflicts.conflicts[k].severity = "critical"
                /\ ~validation.ok
                /\ HasViolationFor(conflicts.conflicts[k].control_id)

-----------------------------------------------------------------------------
(* Claims on agents without candidate actions                              *)

\* C25: a solve never returns an action profile when one of its agents had
\* no candidate actions: such a call ends in a ComputationError, so no
\* finished run holds an agent whose candidate list is empty.
C25_NoCandidatesIsFatal ==
    \A r \in Runs : solve[r].pc = "done" =>
        \A j \in 1..Len(solve[r].sorted_agents) : CandidatesAt(r, j) # <<>>

-----------------------------------------------------------------------------
(* Claims on the red flag of the current proposal                          *)

\* C26: with a non-empty history, validate_truthful_reporting gives the
\* red-flag warning and takes the additional 0.1 exactly when the claimed
\* total value of the current proposal is more than 100 times its
\* implementation cost, and the score is never below 0.0.
C26_RedFlagIffHundredTimesCost ==
    (truth.status = "returned" /\ agent_history # <<>>) =>
        LET flagged == "red_flag" \in Range(truth.warnings)
            patterns ==
                (IF "underestimates_costs" \in Range(truth.warnings)
                 THEN PatternPenalty ELSE 0)
                + (IF "overestimates_benefits" \in Range(truth.warnings)
                   THEN PatternPenalty ELSE 0)
        IN  /\ flagged <=> total_value(proposal.metrics)
                               > 100 * proposal.implementation_cost_usd
            /\ truth.score = Max(FullScore - patterns
                                 - (IF flagged THEN RedFlagPenalty ELSE 0), 0)
            /\ truth.score >= 0

-----------------------------------------------------------------------------
(* Claims on find_pareto_optimal_set                                       *)

RECURSIVE TotalCost(_)
TotalCost(proposals) ==
    IF proposals = <<>> THEN 0
    ELSE Head(proposals).implementation_cost_usd + TotalCost(Tail(proposals))

\* the proposals scanned so far
Scanned == SubSeq(portfolio.sorted_proposals, 1, portfolio.i - 1)

\* what was spent before the proposal at position j was looked at
SpentBefore(j) ==
    TotalCost(SelectSeq(SubSeq(portfolio.sorted_proposals, 1, j - 1),
                        LAMBDA p : p \in Range(portfolio.selected)))

\* the sets of positions of the proposal list
Portfolios == SUBSET (1..Len(portfolio.proposals))

\* the proposals at the positions S, in list order
Picked(S) ==
    SelectSeq(portfolio.proposals,
              LAMBDA p : \E j \in S : portfolio.proposals[j] = p)

\* C27: the set find_pareto_optimal_set returns has the largest total net
\* benefit of all sets of valid proposals of the list whose total cost is
\* at most the budget.
C27_MaximizesWelfare ==
    portfolio.pc = "done" =>
        \A S \in Portfolios :
            (/\ \A j \in S : validate_pareto_improvement(portfolio.proposals[j]).ok
             /\ TotalCost(Picked(S)) <= portfolio.budget_constraint) =>
                calculate_social_welfare(Picked(S))
                    <= calculate_social_welfare(portfolio.selected)

\* C30: at every step of find_pareto_optimal_set the remaining budget is the
\* budget less the cost of the selected proposals and is never negative,
\* every selected proposal passes validate_pareto_improvement, and a scanned
\* proposal is selected exactly when it fitted what was left at its turn, so
\* a proposal that does not fit is passed over and the scan goes on to the
\* end of the list.
C30_NeverOverspends ==
    portfolio.pc # "idle" =>
        /\ portfolio.remaining_budget >= 0
        /\ portfolio.remaining_budget
               = portfolio.budget_constraint - TotalCost(portfolio.selected)
        /\ TotalCost(portfolio.selected) <= portfolio.budget_constraint
        /\ \A p \in Range(portfolio.selected) :
               /\ validate_pareto_improvement(p).ok
               /\ p \in Range(portfolio.proposals)
        /\ portfolio.selected
               = SelectSeq(Scanned, LAMBDA p : p \in Range(portfolio.selected))
        /\ \A j \in 1..(portfolio.i - 1) :
               portfolio.sorted_proposals[j] \in Range(portfolio.selected)
                   <=> portfolio.sorted_proposals[j].implementation_cost_usd
                           <= portfolio.budget_constraint - SpentBefore(j)
        /\ portfolio.pc = "done" =>
               portfolio.i = Len(portfolio.sorted_proposals) + 1

\* a finished call that selected a proposal, passed over the next one
\* because it did not fit, and selected a cheaper one after it
C30_Witness ==
    /\ portfolio.pc = "done"
    /\ Len(portfolio.sorted_proposals) = 3
    /\ portfolio.selected
           = <<portfolio.sorted_proposals[1], portfolio.sorted_proposals[3]>>
    /\ portfolio.sorted_proposals[2].implementation_cost_usd
           > portfolio.sorted_proposals[3].implementation_cost_usd
    /\ portfolio.sorted_proposals[1].implementation_cost_usd > 0
    /\ portfolio.remaining_budget > 0

-----------------------------------------------------------------------------
(* Claims on the solver's output and the Nash verifier                     *)

\* C28: whenever check_nash_equilibrium has returned on the profile that
\* stackelberg_equilibrium computed from the actions of _get_agent_actions,
\* it returned is_equilibrium = true and no deviation.
C28_SolverOutputIsNash ==
    nash.status = "returned" =>
        /\ action_profile = solve["run1"].action_profile
        /\ nash.is_equilibrium
        /\ nash.violations = <<>>

\* a verified equilibrium of three agents in which security-agent took the
\* action on its second control, the one it is Responsible for, and had
\* another action to deviate to
C28_Witness ==
    /\ nash.status = "returned"
    /\ Len(action_profile) = 3
    /\ Len(raci_assignments) > 0
    /\ \E k \in 1..Len(action_profile) :
           /\ action_profile[k].agent = security
           /\ action_profile[k].action = _get_agent_actions(security)[2]
           /\ IsResponsibleFor(security, action_profile[k].action.control_id)

============================================================================
